---- MODULE Spec2Model ----
(***************************************************************************)
(* Model of the iDAW real-time core: the transport state machine           *)
(* (iDAW_Core/transport/TransportState), the track collection              *)
(* (iDAW_Core/tracks/TrackList) and the per-track block processing         *)
(* (iDAW_Core/tracks/Track).                                               *)
(*                                                                         *)
(* Sample positions, beats, tempo and sample rate are C++ doubles in the   *)
(* source.  They are modelled as integers; a division of doubles is        *)
(* modelled by the floor of the exact quotient.  Non-finite doubles (NaN,  *)
(* infinities) are outside the model.                                      *)
(***************************************************************************)
EXTENDS Integers, Sequences, FiniteSets, TLC

VARIABLES
    state,              \* TransportState::state            (atomic<State>)
    samplePosition,     \* TransportState::samplePosition   (atomic<double>)
    tempo,              \* TransportState::tempo            (atomic<double>)
    sampleRate,         \* TransportState::sampleRate       (atomic<double>)
    timeSignature,      \* TransportState::timeSignature    (guarded by timeSignatureLock)
    loopEnabled,        \* TransportState::loopEnabled      (atomic<bool>)
    loopStartSamples,   \* TransportState::loopStartSamples (atomic<double>)
    loopEndSamples,     \* TransportState::loopEndSamples   (atomic<double>)
    notes,              \* typed listener callbacks raised by the call that just returned
    last,               \* the call that just returned: name, result, mode and position before it
    pc,                 \* per thread: the statement of the transport method it is about to run
    lockOwner,          \* TransportState::timeSignatureLock: the thread holding it, or 0
    local,              \* per thread: arguments and the local TimeSignature copy `ts`
    written,            \* every pair stored by a setTimeSignature call so far, and the initial one
    tracks,             \* TrackList::tracks
    selectedTrackIndex, \* TrackList::selectedTrackIndex
    nextTrackNumber,    \* TrackList::nextTrackNumber
    nextUuid,           \* the next identity juce::Uuid() hands out
    listNotes,          \* TrackList::Listener callbacks raised by the call that just returned
    proc,               \* what the processBlock call that just returned did
    masterTrack,        \* TrackList::masterTrack
    lastList,           \* the call that just returned, when it was a TrackList call
    defaultAdded,       \* per base name: tracks added with an empty name since the last clear
    trk,                \* one Track object driven on its own
    lastTrack,          \* the call that just returned, when it was a structural call or a query on trk
    trkNotes,           \* change messages sent by the Track call that just returned
    peakLevels,         \* Track::peakLevels of trk, in hundredths of full scale
    midiTrack,          \* one MidiTrack: Track::muted, Track::solo, MidiTrack::midiChannel
    midiClip,           \* one MidiClip
    estimator,          \* one penta::groove::TempoEstimator
    slot,               \* one PluginSlot
    audioClip,          \* one AudioClip with its reader source
    lastUnit            \* the call that just returned, when it was a metering, MIDI, clip, slot or estimator call

transportVars == <<state, samplePosition, tempo, sampleRate, timeSignature,
                   loopEnabled, loopStartSamples, loopEndSamples>>

lockVars == <<pc, lockOwner, local, written>>

listVars == <<tracks, selectedTrackIndex, nextTrackNumber, nextUuid, listNotes, proc,
              masterTrack, lastList, defaultAdded>>

trackVars == <<trk, lastTrack, trkNotes>>

unitVars == <<peakLevels, midiTrack, midiClip, estimator, slot, audioClip, lastUnit>>

notTheUnits == <<transportVars, notes, last, lockVars, listVars, trackVars>>

\* what a call on one of these objects leaves alone
notThePeaks     == <<notTheUnits, midiTrack, midiClip, estimator, slot, audioClip>>
notTheMidiTrack == <<notTheUnits, peakLevels, midiClip, estimator, slot, audioClip>>
notTheMidiClip  == <<notTheUnits, peakLevels, midiTrack, estimator, slot, audioClip>>
notTheEstimator == <<notTheUnits, peakLevels, midiTrack, midiClip, slot, audioClip>>
notTheSlot      == <<notTheUnits, peakLevels, midiTrack, midiClip, estimator, audioClip>>
notTheAudioClip == <<notTheUnits, peakLevels, midiTrack, midiClip, estimator, slot>>

vars == <<state, samplePosition, tempo, sampleRate, timeSignature,
          loopEnabled, loopStartSamples, loopEndSamples, notes, last,
          pc, lockOwner, local, written,
          tracks, selectedTrackIndex, nextTrackNumber, nextUuid, listNotes, proc,
          masterTrack, lastList, defaultAdded, trk, lastTrack, trkNotes,
          peakLevels, midiTrack, midiClip, estimator, slot, audioClip, lastUnit>>

----------------------------------------------------------------------------
(* Bounds of the model *)

MaxPos == 2             \* sample positions and loop bounds explored: -MaxPos..MaxPos
NumThreads == 2         \* threads calling into the transport concurrently
MaxTracks == 2          \* tracks in the collection
MaxCreated == 3         \* tracks constructed over the life of the collection

----------------------------------------------------------------------------
(* Inputs *)

States       == {"Stopped", "Playing", "Recording", "Paused"}
PosArgs      == (0 - 1)..MaxPos
BeatArgs     == {0 - 1, 0, 1}
BarArgs      == {0, 1, 2}
AdvanceArgs  == {0 - 1, 1, 2}
TempoArgs    == {19, 120, 1000}
TimeSigArgs  == {<<0, 33>>, <<3, 8>>, <<4, 4>>}
RateArgs     == {2, 44100}
InRange(x)   == x >= 0 - MaxPos /\ x <= MaxPos

Threads      == 1..NumThreads
NoLocal      == [op |-> "none", bar |-> 0, argNumerator |-> 0, argDenominator |-> 0,
                 numerator |-> 0, denominator |-> 0]
NoProc       == [index |-> 0 - 1, audible |-> FALSE, bufferCleared |-> FALSE,
                 midiCleared |-> FALSE, renderedClips |-> FALSE, ranPluginChain |-> FALSE]
NoListCall   == [op |-> "none", index |-> 0 - 1, to |-> 0 - 1, name |-> <<>>]
NoTrackCall  == [op |-> "none", index |-> 0 - 1, to |-> 0 - 1, ret |-> 0 - 1]
NameArgs     == {<<>>, <<"Lead">>}
IndexArgs    == (0 - 1)..MaxTracks

----------------------------------------------------------------------------
(* Library helpers used by the source *)

jlimit(lowerLimit, upperLimit, v) ==
    IF v < lowerLimit THEN lowerLimit
    ELSE IF upperLimit < v THEN upperLimit
    ELSE v

max(a, b) == IF a < b THEN b ELSE a

----------------------------------------------------------------------------
(* Conversion utilities *)

beatsToSamples(beats) == (beats * (sampleRate * 60)) \div tempo

----------------------------------------------------------------------------
(* Notifications: every notifyX() makes one typed listener callback *)

notifyStateChanged    == <<"state">>
notifyTempoChanged    == <<"tempo">>
notifyPositionChanged == <<"position">>
notifyLoopChanged     == <<"loop">>

Returned(op, ret) ==
    [op |-> op, ret |-> ret, prevState |-> state, prevPos |-> samplePosition]

----------------------------------------------------------------------------
(* Playback control *)

isPlayingNow == state = "Playing" \/ state = "Recording"

play_AlwaysNotifies ==
    /\ state' = "Playing"
    /\ notes' = notifyStateChanged
    /\ last' = Returned("play", FALSE)
    /\ UNCHANGED <<lockVars, listVars, trackVars, unitVars>>
    /\ UNCHANGED <<samplePosition, tempo, sampleRate, timeSignature,
                   loopEnabled, loopStartSamples, loopEndSamples>>

play ==
    /\ state' = "Playing"
    /\ notes' = IF state # "Playing" THEN notifyStateChanged ELSE <<>>
    /\ last' = Returned("play", FALSE)
    /\ UNCHANGED <<lockVars, listVars, trackVars, unitVars>>
    /\ UNCHANGED <<samplePosition, tempo, sampleRate, timeSignature,
                   loopEnabled, loopStartSamples, loopEndSamples>>

pause ==
    /\ state' = "Paused"
    /\ notes' = IF state # "Paused" THEN notifyStateChanged ELSE <<>>
    /\ last' = Returned("pause", FALSE)
    /\ UNCHANGED <<lockVars, listVars, trackVars, unitVars>>
    /\ UNCHANGED <<samplePosition, tempo, sampleRate, timeSignature,
                   loopEnabled, loopStartSamples, loopEndSamples>>

stop_KeepsPosition ==
    /\ state' = "Stopped"
    /\ samplePosition' = samplePosition
    /\ notes' = notifyStateChanged \o notifyPositionChanged
    /\ last' = Returned("stop", FALSE)
    /\ UNCHANGED <<lockVars, listVars, trackVars, unitVars>>
    /\ UNCHANGED <<tempo, sampleRate, timeSignature,
                   loopEnabled, loopStartSamples, loopEndSamples>>

stop ==
    /\ state' = "Stopped"
    /\ samplePosition' = 0
    /\ notes' = notifyStateChanged \o notifyPositionChanged
    /\ last' = Returned("stop", FALSE)
    /\ UNCHANGED <<lockVars, listVars, trackVars, unitVars>>
    /\ UNCHANGED <<tempo, sampleRate, timeSignature,
                   loopEnabled, loopStartSamples, loopEndSamples>>

startRecording ==
    /\ state' = "Recording"
    /\ notes' = IF state # "Recording" THEN notifyStateChanged ELSE <<>>
    /\ last' = Returned("startRecording", FALSE)
    /\ UNCHANGED <<lockVars, listVars, trackVars, unitVars>>
    /\ UNCHANGED <<samplePosition, tempo, sampleRate, timeSignature,
                   loopEnabled, loopStartSamples, loopEndSamples>>

stopRecording_Unconditional ==
    /\ state' = "Playing"
    /\ notes' = IF state # "Playing" THEN notifyStateChanged ELSE <<>>
    /\ last' = Returned("stopRecording", FALSE)
    /\ UNCHANGED <<lockVars, listVars, trackVars, unitVars>>
    /\ UNCHANGED <<samplePosition, tempo, sampleRate, timeSignature,
                   loopEnabled, loopStartSamples, loopEndSamples>>

stopRecording ==
    /\ IF state = "Recording"
       THEN state' = "Playing" /\ notes' = notifyStateChanged
       ELSE state' = state /\ notes' = <<>>
    /\ last' = Returned("stopRecording", FALSE)
    /\ UNCHANGED <<lockVars, listVars, trackVars, unitVars>>
    /\ UNCHANGED <<samplePosition, tempo, sampleRate, timeSignature,
                   loopEnabled, loopStartSamples, loopEndSamples>>

isPlaying ==
    /\ notes' = <<>>
    /\ last' = Returned("isPlaying", isPlayingNow)
    /\ UNCHANGED <<lockVars, listVars, trackVars, unitVars>>
    /\ UNCHANGED transportVars

----------------------------------------------------------------------------
(* Position *)

setSamplePosition(position) ==
    /\ InRange(position)
    /\ samplePosition' = max(0, position)
    /\ notes' = notifyPositionChanged
    /\ last' = Returned("setSamplePosition", FALSE)
    /\ UNCHANGED <<lockVars, listVars, trackVars, unitVars>>
    /\ UNCHANGED <<state, tempo, sampleRate, timeSignature,
                   loopEnabled, loopStartSamples, loopEndSamples>>

setPositionInBeats(beats) ==
    /\ InRange(beatsToSamples(beats))
    /\ samplePosition' = max(0, beatsToSamples(beats))
    /\ notes' = notifyPositionChanged
    /\ last' = Returned("setPositionInBeats", FALSE)
    /\ UNCHANGED <<lockVars, listVars, trackVars, unitVars>>
    /\ UNCHANGED <<state, tempo, sampleRate, timeSignature,
                   loopEnabled, loopStartSamples, loopEndSamples>>

setPositionToBar(bar) ==
    LET beatsPerBar == timeSignature.numerator
        beats       == (bar - 1) * beatsPerBar
    IN  /\ InRange(beatsToSamples(beats))
        /\ samplePosition' = max(0, beatsToSamples(beats))
        /\ notes' = notifyPositionChanged
        /\ last' = Returned("setPositionToBar", FALSE)
        /\ UNCHANGED <<lockVars, listVars, trackVars, unitVars>>
        /\ UNCHANGED <<state, tempo, sampleRate, timeSignature,
                       loopEnabled, loopStartSamples, loopEndSamples>>

----------------------------------------------------------------------------
(* Tempo and time signature *)

setTempo_Unclamped(bpm) ==
    /\ tempo' = bpm
    /\ notes' = notifyTempoChanged
    /\ last' = Returned("setTempo", FALSE)
    /\ UNCHANGED <<lockVars, listVars, trackVars, unitVars>>
    /\ UNCHANGED <<state, samplePosition, sampleRate, timeSignature,
                   loopEnabled, loopStartSamples, loopEndSamples>>

setTempo(bpm) ==
    /\ tempo' = jlimit(20, 999, bpm)
    /\ notes' = notifyTempoChanged
    /\ last' = Returned("setTempo", FALSE)
    /\ UNCHANGED <<lockVars, listVars, trackVars, unitVars>>
    /\ UNCHANGED <<state, samplePosition, sampleRate, timeSignature,
                   loopEnabled, loopStartSamples, loopEndSamples>>

setTimeSignature(numerator, denominator) ==
    /\ timeSignature' = [numerator   |-> jlimit(1, 32, numerator),
                         denominator |-> jlimit(1, 32, denominator)]
    /\ notes' = <<>>
    /\ last' = Returned("setTimeSignature", FALSE)
    /\ UNCHANGED <<lockVars, listVars, trackVars, unitVars>>
    /\ UNCHANGED <<state, samplePosition, tempo, sampleRate,
                   loopEnabled, loopStartSamples, loopEndSamples>>

setSampleRate(rate) ==
    /\ sampleRate' = rate
    /\ notes' = <<>>
    /\ last' = Returned("setSampleRate", FALSE)
    /\ UNCHANGED <<lockVars, listVars, trackVars, unitVars>>
    /\ UNCHANGED <<state, samplePosition, tempo, timeSignature,
                   loopEnabled, loopStartSamples, loopEndSamples>>

----------------------------------------------------------------------------
(* Loop *)

setLooping(enabled) ==
    /\ loopEnabled' = enabled
    /\ notes' = notifyLoopChanged
    /\ last' = Returned("setLooping", FALSE)
    /\ UNCHANGED <<lockVars, listVars, trackVars, unitVars>>
    /\ UNCHANGED <<state, samplePosition, tempo, sampleRate, timeSignature,
                   loopStartSamples, loopEndSamples>>

setLoopRange(startSamples, endSamples) ==
    /\ InRange(startSamples) /\ InRange(endSamples)
    /\ loopStartSamples' = max(0, startSamples)
    /\ loopEndSamples' = max(startSamples, endSamples)
    /\ notes' = notifyLoopChanged
    /\ last' = Returned("setLoopRange", FALSE)
    /\ UNCHANGED <<lockVars, listVars, trackVars, unitVars>>
    /\ UNCHANGED <<state, samplePosition, tempo, sampleRate, timeSignature,
                   loopEnabled>>

setLoopRangeInBeats(startBeats, endBeats) ==
    LET startSamples == beatsToSamples(startBeats)
        endSamples   == beatsToSamples(endBeats)
    IN  /\ InRange(startSamples) /\ InRange(endSamples)
        /\ loopStartSamples' = max(0, startSamples)
        /\ loopEndSamples' = max(startSamples, endSamples)
        /\ notes' = notifyLoopChanged
        /\ last' = Returned("setLoopRangeInBeats", FALSE)
        /\ UNCHANGED <<lockVars, listVars, trackVars, unitVars>>
        /\ UNCHANGED <<state, samplePosition, tempo, sampleRate, timeSignature,
                       loopEnabled>>

----------------------------------------------------------------------------
(* Audio processing *)

advancePosition_Always(numSamples) ==
    /\ InRange(samplePosition + numSamples)
    /\ samplePosition' = samplePosition + numSamples
    /\ notes' = <<>>
    /\ last' = Returned("advancePosition", FALSE) @@ [numSamples |-> numSamples]
    /\ UNCHANGED <<lockVars, listVars, trackVars, unitVars>>
    /\ UNCHANGED <<state, tempo, sampleRate, timeSignature,
                   loopEnabled, loopStartSamples, loopEndSamples>>

advancePosition(numSamples) ==
    /\ InRange(samplePosition + numSamples)
    /\ samplePosition' = IF isPlayingNow THEN samplePosition + numSamples
                         ELSE samplePosition
    /\ notes' = <<>>
    /\ last' = Returned("advancePosition", FALSE) @@ [numSamples |-> numSamples]
    /\ UNCHANGED <<lockVars, listVars, trackVars, unitVars>>
    /\ UNCHANGED <<state, tempo, sampleRate, timeSignature,
                   loopEnabled, loopStartSamples, loopEndSamples>>

shouldLoopNow_Strict ==
    IF ~loopEnabled THEN FALSE
    ELSE samplePosition > loopEndSamples

shouldLoopNow ==
    IF ~loopEnabled THEN FALSE
    ELSE samplePosition >= loopEndSamples

shouldLoop ==
    /\ notes' = <<>>
    /\ last' = Returned("shouldLoop", shouldLoopNow)
    /\ UNCHANGED <<lockVars, listVars, trackVars, unitVars>>
    /\ UNCHANGED transportVars

\* performLoopIfNeeded jumping to the loop end
performLoopIfNeeded_ToEnd ==
    /\ IF shouldLoopNow
       THEN samplePosition' = loopEndSamples /\ last' = Returned("performLoopIfNeeded", TRUE)
       ELSE samplePosition' = samplePosition /\ last' = Returned("performLoopIfNeeded", FALSE)
    /\ notes' = <<>>
    /\ UNCHANGED <<lockVars, listVars, trackVars, unitVars>>
    /\ UNCHANGED <<state, tempo, sampleRate, timeSignature,
                   loopEnabled, loopStartSamples, loopEndSamples>>

performLoopIfNeeded ==
    /\ IF shouldLoopNow
       THEN samplePosition' = loopStartSamples /\ last' = Returned("performLoopIfNeeded", TRUE)
       ELSE samplePosition' = samplePosition /\ last' = Returned("performLoopIfNeeded", FALSE)
    /\ notes' = <<>>
    /\ UNCHANGED <<lockVars, listVars, trackVars, unitVars>>
    /\ UNCHANGED <<state, tempo, sampleRate, timeSignature,
                   loopEnabled, loopStartSamples, loopEndSamples>>

----------------------------------------------------------------------------
(* The transport driven by one caller at a time *)

TransportInit ==
    /\ state = "Stopped"
    /\ samplePosition = 0
    /\ tempo = 120
    /\ sampleRate = 44100
    /\ timeSignature = [numerator |-> 4, denominator |-> 4]
    /\ loopEnabled = FALSE
    /\ loopStartSamples = 0
    /\ loopEndSamples = 0

ObservedInit ==
    /\ notes = <<>>
    /\ last = [op |-> "init", ret |-> FALSE, prevState |-> "Stopped", prevPos |-> 0]

LockInit ==
    /\ pc = [t \in Threads |-> "idle"]
    /\ lockOwner = 0
    /\ local = [t \in Threads |-> NoLocal]
    /\ written = {<<4, 4>>}

ListInit ==
    /\ tracks = <<>>
    /\ selectedTrackIndex = 0 - 1
    /\ nextTrackNumber = 1
    /\ nextUuid = 1
    /\ listNotes = <<>>
    /\ proc = NoProc
    /\ masterTrack = [type |-> "Master", name |-> <<"Master">>,
                      colour |-> <<255, 0, 212, 255>>,
                      id |-> 0 - 1, constructedId |-> 0 - 1, index |-> 0,
                      solo |-> FALSE, muted |-> FALSE, armed |-> FALSE,
                      volume |-> 1, pan |-> 0, pluginSlots |-> <<>>, clips |-> <<>>]
    /\ lastList = NoListCall
    /\ defaultAdded = [b \in {"Audio", "MIDI", "Group"} |-> 0]

TrackInit ==
    /\ trk = [type |-> "Audio", name |-> <<"Track">>,
              colour |-> <<255, 0, 212, 255>>,
              id |-> 0 - 2, constructedId |-> 0 - 2, index |-> 0,
              solo |-> FALSE, muted |-> FALSE, armed |-> FALSE,
              volume |-> 1, pan |-> 0, pluginSlots |-> <<>>, clips |-> <<>>]
    /\ lastTrack = NoTrackCall
    /\ trkNotes = 0

NoUnitCall == [op |-> "none"]

UnitInit ==
    /\ peakLevels = <<0, 0>>
    /\ midiTrack = [muted |-> FALSE, solo |-> FALSE, midiChannel |-> 0]
    /\ midiClip = [kind |-> "MidiClip", name |-> <<"Clip">>, colour |-> <<255, 0, 212, 255>>,
                   startPosition |-> 0, length |-> 0, offset |-> 0,
                   audioFile |-> <<>>, hasReader |-> FALSE, midiData |-> <<>>]
    /\ estimator = [config |-> [sampleRate |-> 2, minTempo |-> 60000, maxTempo |-> 200000,
                                adaptationRate |-> 10, historySize |-> 4],
                    onsetHistory |-> <<>>, currentTempo |-> 120000, confidence |-> 0,
                    lastOnsetPosition |-> 0]
    /\ slot = [hasPlugin |-> FALSE, enabled |-> TRUE, plugin |-> "", description |-> "",
               currentSampleRate |-> 44100, currentBlockSize |-> 512]
    /\ audioClip = [kind |-> "AudioClip", name |-> <<"Clip">>, colour |-> <<255, 0, 212, 255>>,
                    startPosition |-> 0, length |-> 0, offset |-> 0,
                    audioFile |-> <<>>, hasReader |-> FALSE, midiData |-> <<>>,
                    readerFile |-> <<>>, nextReadPosition |-> 0]
    /\ lastUnit = NoUnitCall

Init == TransportInit /\ ObservedInit /\ LockInit /\ ListInit /\ TrackInit /\ UnitInit

Next ==
    \/ play
    \/ pause
    \/ stop
    \/ startRecording
    \/ stopRecording
    \/ isPlaying
    \/ \E p \in PosArgs : setSamplePosition(p)
    \/ \E b \in BeatArgs : setPositionInBeats(b)
    \/ \E b \in BarArgs : setPositionToBar(b)
    \/ \E bpm \in TempoArgs : setTempo(bpm)
    \/ \E ts \in TimeSigArgs : setTimeSignature(ts[1], ts[2])
    \/ \E r \in RateArgs : setSampleRate(r)
    \/ \E e \in BOOLEAN : setLooping(e)
    \/ \E s \in PosArgs, e \in PosArgs : setLoopRange(s, e)
    \/ \E s \in BeatArgs, e \in BeatArgs : setLoopRangeInBeats(s, e)
    \/ \E n \in AdvanceArgs : advancePosition(n)
    \/ shouldLoop
    \/ performLoopIfNeeded

Spec == Init /\ [][Next]_vars

----------------------------------------------------------------------------
(* The time signature under concurrent callers.  Each thread runs one       *)
(* transport method at a time, one statement per step; SpinLock::enter     *)
(* spins until the lock is free.                                           *)

ReadOps == {"getTimeSignature", "getPosition", "setPositionToBar",
            "barsToSamples", "samplesToBar"}

otherThanLock == <<state, tempo, sampleRate, loopEnabled, loopStartSamples,
                   loopEndSamples, notes, last, listVars, trackVars, unitVars>>

setTimeSignature_lock_NoLock(t, numerator, denominator) ==
    /\ pc[t] = "idle"
    /\ pc' = [pc EXCEPT ![t] = "sts_numerator"]
    /\ local' = [local EXCEPT ![t] = [NoLocal EXCEPT !.op = "setTimeSignature",
                                                     !.argNumerator = numerator,
                                                     !.argDenominator = denominator]]
    /\ UNCHANGED <<lockOwner, timeSignature, written, samplePosition, otherThanLock>>

setTimeSignature_lock(t, numerator, denominator) ==
    /\ pc[t] = "idle"
    /\ lockOwner = 0
    /\ lockOwner' = t
    /\ pc' = [pc EXCEPT ![t] = "sts_numerator"]
    /\ local' = [local EXCEPT ![t] = [NoLocal EXCEPT !.op = "setTimeSignature",
                                                     !.argNumerator = numerator,
                                                     !.argDenominator = denominator]]
    /\ UNCHANGED <<timeSignature, written, samplePosition, otherThanLock>>

setTimeSignature_numerator(t) ==
    /\ pc[t] = "sts_numerator"
    /\ timeSignature' = [timeSignature EXCEPT
                            !.numerator = jlimit(1, 32, local[t].argNumerator)]
    /\ pc' = [pc EXCEPT ![t] = "sts_denominator"]
    /\ UNCHANGED <<lockOwner, local, written, samplePosition, otherThanLock>>

setTimeSignature_denominator(t) ==
    /\ pc[t] = "sts_denominator"
    /\ timeSignature' = [timeSignature EXCEPT
                            !.denominator = jlimit(1, 32, local[t].argDenominator)]
    /\ written' = written \cup {<<jlimit(1, 32, local[t].argNumerator),
                                  jlimit(1, 32, local[t].argDenominator)>>}
    /\ pc' = [pc EXCEPT ![t] = "sts_unlock"]
    /\ UNCHANGED <<lockOwner, local, samplePosition, otherThanLock>>

setTimeSignature_unlock(t) ==
    /\ pc[t] = "sts_unlock"
    /\ lockOwner' = 0
    /\ pc' = [pc EXCEPT ![t] = "idle"]
    /\ local' = [local EXCEPT ![t] = NoLocal]
    /\ UNCHANGED <<timeSignature, written, samplePosition, otherThanLock>>

readTimeSignature_lock(t, op, bar) ==
    /\ pc[t] = "idle"
    /\ lockOwner = 0
    /\ lockOwner' = t
    /\ pc' = [pc EXCEPT ![t] = "rd_numerator"]
    /\ local' = [local EXCEPT ![t] = [NoLocal EXCEPT !.op = op, !.bar = bar]]
    /\ UNCHANGED <<timeSignature, written, samplePosition, otherThanLock>>

readTimeSignature_numerator(t) ==
    /\ pc[t] = "rd_numerator"
    /\ local' = [local EXCEPT ![t].numerator = timeSignature.numerator]
    /\ pc' = [pc EXCEPT ![t] = "rd_denominator"]
    /\ UNCHANGED <<lockOwner, timeSignature, written, samplePosition, otherThanLock>>

readTimeSignature_denominator(t) ==
    /\ pc[t] = "rd_denominator"
    /\ local' = [local EXCEPT ![t].denominator = timeSignature.denominator]
    /\ pc' = [pc EXCEPT ![t] = "rd_unlock"]
    /\ UNCHANGED <<lockOwner, timeSignature, written, samplePosition, otherThanLock>>

readTimeSignature_unlock(t) ==
    /\ pc[t] = "rd_unlock"
    /\ lockOwner' = 0
    /\ pc' = [pc EXCEPT ![t] =
                 IF local[t].op = "setPositionToBar" THEN "spb_store" ELSE "rd_return"]
    /\ UNCHANGED <<local, timeSignature, written, samplePosition, otherThanLock>>

readTimeSignature_return(t) ==
    /\ pc[t] = "rd_return"
    /\ pc' = [pc EXCEPT ![t] = "idle"]
    /\ local' = [local EXCEPT ![t] = NoLocal]
    /\ UNCHANGED <<lockOwner, timeSignature, written, samplePosition, otherThanLock>>

setPositionToBar_store(t) ==
    /\ pc[t] = "spb_store"
    /\ samplePosition' = max(0, beatsToSamples((local[t].bar - 1) * local[t].numerator))
    /\ pc' = [pc EXCEPT ![t] = "spb_notify"]
    /\ UNCHANGED <<lockOwner, local, timeSignature, written, otherThanLock>>

setPositionToBar_notify(t) ==
    /\ pc[t] = "spb_notify"
    /\ pc' = [pc EXCEPT ![t] = "idle"]
    /\ local' = [local EXCEPT ![t] = NoLocal]
    /\ UNCHANGED <<lockOwner, timeSignature, written, samplePosition, otherThanLock>>

NextTimeSignature ==
    \/ \E t \in Threads, ts \in TimeSigArgs : setTimeSignature_lock(t, ts[1], ts[2])
    \/ \E t \in Threads : setTimeSignature_numerator(t)
    \/ \E t \in Threads : setTimeSignature_denominator(t)
    \/ \E t \in Threads : setTimeSignature_unlock(t)
    \/ \E t \in Threads, op \in ReadOps, bar \in BarArgs :
          readTimeSignature_lock(t, op, IF op = "setPositionToBar" THEN bar ELSE 0)
    \/ \E t \in Threads : readTimeSignature_numerator(t)
    \/ \E t \in Threads : readTimeSignature_denominator(t)
    \/ \E t \in Threads : readTimeSignature_unlock(t)
    \/ \E t \in Threads : readTimeSignature_return(t)
    \/ \E t \in Threads : setPositionToBar_store(t)
    \/ \E t \in Threads : setPositionToBar_notify(t)

SpecTimeSignature == Init /\ [][NextTimeSignature]_vars

----------------------------------------------------------------------------
(* The mode and the sample position under a control thread and the audio   *)
(* thread.  Each thread runs one transport method at a time, one atomic    *)
(* load, store, exchange or fetch_add per step; a method returns with its  *)
(* last step, and the listener callbacks it makes run on the calling       *)
(* thread before it returns.  `last` is the method that returned with the  *)
(* step, `busy` the methods started since every thread was last idle, and  *)
(* `rolling` of an advancePosition call tells whether the mode has been    *)
(* Playing or Recording at every instant of the call so far.               *)

AudioThread == 1

BlockSizeArgs == {1, 2}

ControlThreads == Threads \ {AudioThread}

notTheMode == <<tempo, sampleRate, timeSignature, loopEnabled, loopStartSamples,
                loopEndSamples, notes, lockOwner, written, listVars, trackVars, unitVars>>

Rolling(mode) == mode = "Playing" \/ mode = "Recording"

Quiet == \A t \in Threads : pc[t] = "idle"

busyWith(op) == IF Quiet \/ "busy" \notin DOMAIN last THEN {op} ELSE last.busy \cup {op}

Started(op) == [op |-> "none", ret |-> FALSE, busy |-> busyWith(op), call |-> NoLocal]

Finished(op, ret, busy, call) == [op |-> op, ret |-> ret, busy |-> busy, call |-> call]

\* the locals of the other threads once the mode has become newMode
modeSeen(t, newMode, own) ==
    [u \in Threads |->
        IF u = t THEN own
        ELSE IF local[u].op = "advancePosition"
             THEN [local[u] EXCEPT !.rolling = @ /\ Rolling(newMode)]
             ELSE local[u]]

exchangeMode(t, op, mode) ==
    /\ t \in ControlThreads
    /\ pc[t] = "idle"
    /\ state' = mode
    /\ local' = modeSeen(t, mode, NoLocal)
    /\ last' = Finished(op, state # mode, busyWith(op), NoLocal)
    /\ UNCHANGED <<pc, samplePosition, notTheMode>>

play_exchange(t) == exchangeMode(t, "play", "Playing")

pause_exchange(t) == exchangeMode(t, "pause", "Paused")

startRecording_exchange(t) == exchangeMode(t, "startRecording", "Recording")

stop_storeState(t) ==
    /\ t \in ControlThreads
    /\ pc[t] = "idle"
    /\ state' = "Stopped"
    /\ pc' = [pc EXCEPT ![t] = "stop_storePosition"]
    /\ local' = modeSeen(t, "Stopped", [op |-> "stop"])
    /\ last' = Started("stop")
    /\ UNCHANGED <<samplePosition, notTheMode>>

stop_storePosition(t) ==
    /\ pc[t] = "stop_storePosition"
    /\ samplePosition' = 0
    /\ pc' = [pc EXCEPT ![t] = "idle"]
    /\ local' = [local EXCEPT ![t] = NoLocal]
    /\ last' = Finished("stop", FALSE, last.busy, NoLocal)
    /\ UNCHANGED <<state, notTheMode>>

stopRecording_load(t) ==
    /\ t \in ControlThreads
    /\ pc[t] = "idle"
    /\ IF state = "Recording"
       THEN /\ pc' = [pc EXCEPT ![t] = "stopRecording_store"]
            /\ local' = [local EXCEPT ![t] = [op |-> "stopRecording"]]
            /\ last' = Started("stopRecording")
       ELSE /\ last' = Finished("stopRecording", FALSE, busyWith("stopRecording"), NoLocal)
            /\ UNCHANGED <<pc, local>>
    /\ UNCHANGED <<state, samplePosition, notTheMode>>

stopRecording_store(t) ==
    /\ pc[t] = "stopRecording_store"
    /\ state' = "Playing"
    /\ pc' = [pc EXCEPT ![t] = "idle"]
    /\ local' = modeSeen(t, "Playing", NoLocal)
    /\ last' = Finished("stopRecording", TRUE, last.busy, NoLocal)
    /\ UNCHANGED <<samplePosition, notTheMode>>

\* isPlaying(): the first load, state.load() == State::Playing
advancePosition_loadPlaying(t, numSamples) ==
    /\ t = AudioThread
    /\ pc[t] = "idle"
    /\ InRange(samplePosition + numSamples)
    /\ pc' = [pc EXCEPT ![t] = IF state = "Playing" THEN "advancePosition_fetchAdd"
                               ELSE "advancePosition_loadRecording"]
    /\ local' = [local EXCEPT ![t] = [op |-> "advancePosition", numSamples |-> numSamples,
                                      rolling |-> Rolling(state)]]
    /\ last' = Started("advancePosition")
    /\ UNCHANGED <<state, samplePosition, notTheMode>>

\* isPlaying(): the second load, state.load() == State::Recording
advancePosition_loadRecording(t) ==
    /\ pc[t] = "advancePosition_loadRecording"
    /\ IF state = "Recording"
       THEN /\ pc' = [pc EXCEPT ![t] = "advancePosition_fetchAdd"]
            /\ UNCHANGED <<local, last>>
       ELSE /\ pc' = [pc EXCEPT ![t] = "idle"]
            /\ local' = [local EXCEPT ![t] = NoLocal]
            /\ last' = Finished("advancePosition", FALSE, last.busy, local[t])
    /\ UNCHANGED <<state, samplePosition, notTheMode>>

advancePosition_fetchAdd(t) ==
    /\ pc[t] = "advancePosition_fetchAdd"
    /\ samplePosition' = samplePosition + local[t].numSamples
    /\ pc' = [pc EXCEPT ![t] = "idle"]
    /\ local' = [local EXCEPT ![t] = NoLocal]
    /\ last' = Finished("advancePosition", TRUE, last.busy, local[t])
    /\ UNCHANGED <<state, notTheMode>>

NextMode ==
    \/ \E t \in Threads : play_exchange(t)
    \/ \E t \in Threads : pause_exchange(t)
    \/ \E t \in Threads : startRecording_exchange(t)
    \/ \E t \in Threads : stop_storeState(t)
    \/ \E t \in Threads : stop_storePosition(t)
    \/ \E t \in Threads : stopRecording_load(t)
    \/ \E t \in Threads : stopRecording_store(t)
    \/ \E t \in Threads, numSamples \in BlockSizeArgs : advancePosition_loadPlaying(t, numSamples)
    \/ \E t \in Threads : advancePosition_loadRecording(t)
    \/ \E t \in Threads : advancePosition_fetchAdd(t)

SpecMode == Init /\ [][NextMode]_vars

----------------------------------------------------------------------------
(* The loop range under a control thread and the audio thread, one atomic  *)
(* load or store per step.  Every setLoopRange call passes                 *)
(* end >= start >= 0.                                                      *)

LoopRangeArgs == {range \in (0..MaxPos) \X (0..MaxPos) : range[1] <= range[2]}

SeekArgs == 0..MaxPos

notTheLoop == <<state, tempo, sampleRate, timeSignature, notes, lockOwner, written,
                listVars, trackVars, unitVars>>

setLooping_store(t, enabled) ==
    /\ t \in ControlThreads
    /\ pc[t] = "idle"
    /\ loopEnabled' = enabled
    /\ last' = Finished("setLooping", FALSE, busyWith("setLooping"), NoLocal)
    /\ UNCHANGED <<pc, local, samplePosition, loopStartSamples, loopEndSamples, notTheLoop>>

setSamplePosition_store(t, position) ==
    /\ t \in ControlThreads
    /\ pc[t] = "idle"
    /\ samplePosition' = max(0, position)
    /\ last' = Finished("setSamplePosition", FALSE, busyWith("setSamplePosition"), NoLocal)
    /\ UNCHANGED <<pc, local, loopEnabled, loopStartSamples, loopEndSamples, notTheLoop>>

setLoopRange_storeStart(t, startSamples, endSamples) ==
    /\ t \in ControlThreads
    /\ pc[t] = "idle"
    /\ loopStartSamples' = max(0, startSamples)
    /\ pc' = [pc EXCEPT ![t] = "setLoopRange_storeEnd"]
    /\ local' = [local EXCEPT ![t] = [op |-> "setLoopRange", startSamples |-> startSamples,
                                      endSamples |-> endSamples]]
    /\ last' = Started("setLoopRange")
    /\ UNCHANGED <<samplePosition, loopEnabled, loopEndSamples, notTheLoop>>

setLoopRange_storeEnd(t) ==
    /\ pc[t] = "setLoopRange_storeEnd"
    /\ loopEndSamples' = max(local[t].startSamples, local[t].endSamples)
    /\ pc' = [pc EXCEPT ![t] = "idle"]
    /\ local' = [local EXCEPT ![t] = NoLocal]
    /\ last' = Finished("setLoopRange", FALSE, last.busy, NoLocal)
    /\ UNCHANGED <<samplePosition, loopEnabled, loopStartSamples, notTheLoop>>

\* shouldLoop(): loopEnabled.load()
performLoopIfNeeded_loadEnabled(t) ==
    /\ t = AudioThread
    /\ pc[t] = "idle"
    /\ IF loopEnabled
       THEN /\ pc' = [pc EXCEPT ![t] = "performLoopIfNeeded_loadPosition"]
            /\ local' = [local EXCEPT ![t] = [op |-> "performLoopIfNeeded",
                                              pos |-> 0, end |-> 0, start |-> 0]]
            /\ last' = Started("performLoopIfNeeded")
       ELSE /\ last' = Finished("performLoopIfNeeded", FALSE,
                                busyWith("performLoopIfNeeded"), NoLocal)
            /\ UNCHANGED <<pc, local>>
    /\ UNCHANGED <<samplePosition, loopEnabled, loopStartSamples, loopEndSamples, notTheLoop>>

\* shouldLoop(): samplePosition.load()
performLoopIfNeeded_loadPosition(t) ==
    /\ pc[t] = "performLoopIfNeeded_loadPosition"
    /\ local' = [local EXCEPT ![t].pos = samplePosition]
    /\ pc' = [pc EXCEPT ![t] = "performLoopIfNeeded_loadEnd"]
    /\ UNCHANGED <<last, samplePosition, loopEnabled, loopStartSamples, loopEndSamples,
                   notTheLoop>>

\* shouldLoop(): loopEndSamples.load() and the comparison
performLoopIfNeeded_loadEnd(t) ==
    /\ pc[t] = "performLoopIfNeeded_loadEnd"
    /\ IF local[t].pos >= loopEndSamples
       THEN /\ pc' = [pc EXCEPT ![t] = "performLoopIfNeeded_loadStart"]
            /\ local' = [local EXCEPT ![t].end = loopEndSamples]
            /\ UNCHANGED last
       ELSE /\ pc' = [pc EXCEPT ![t] = "idle"]
            /\ local' = [local EXCEPT ![t] = NoLocal]
            /\ last' = Finished("performLoopIfNeeded", FALSE, last.busy,
                                [local[t] EXCEPT !.end = loopEndSamples])
    /\ UNCHANGED <<samplePosition, loopEnabled, loopStartSamples, loopEndSamples, notTheLoop>>

performLoopIfNeeded_loadStart(t) ==
    /\ pc[t] = "performLoopIfNeeded_loadStart"
    /\ local' = [local EXCEPT ![t].start = loopStartSamples]
    /\ pc' = [pc EXCEPT ![t] = "performLoopIfNeeded_storePosition"]
    /\ UNCHANGED <<last, samplePosition, loopEnabled, loopStartSamples, loopEndSamples,
                   notTheLoop>>

performLoopIfNeeded_storePosition(t) ==
    /\ pc[t] = "performLoopIfNeeded_storePosition"
    /\ samplePosition' = local[t].start
    /\ pc' = [pc EXCEPT ![t] = "idle"]
    /\ local' = [local EXCEPT ![t] = NoLocal]
    /\ last' = Finished("performLoopIfNeeded", TRUE, last.busy, local[t])
    /\ UNCHANGED <<loopEnabled, loopStartSamples, loopEndSamples, notTheLoop>>

NextLoopRange ==
    \/ \E t \in Threads, enabled \in BOOLEAN : setLooping_store(t, enabled)
    \/ \E t \in Threads, position \in SeekArgs : setSamplePosition_store(t, position)
    \/ \E t \in Threads, range \in LoopRangeArgs : setLoopRange_storeStart(t, range[1], range[2])
    \/ \E t \in Threads : setLoopRange_storeEnd(t)
    \/ \E t \in Threads : performLoopIfNeeded_loadEnabled(t)
    \/ \E t \in Threads : performLoopIfNeeded_loadPosition(t)
    \/ \E t \in Threads : performLoopIfNeeded_loadEnd(t)
    \/ \E t \in Threads : performLoopIfNeeded_loadStart(t)
    \/ \E t \in Threads : performLoopIfNeeded_storePosition(t)

SpecLoopRange == Init /\ [][NextLoopRange]_vars

----------------------------------------------------------------------------
(* The per-block driver.  The control surface sets the transport up while  *)
(* the audio thread is idle; once the driver runs, it repeats              *)
(* (1) advancePosition(N), (2) performLoopIfNeeded(), (3) track processing *)
(* for ever and no control call intervenes.  The driver is started with    *)
(* the position inside the explored range.                                 *)

notTheDriver == <<state, tempo, sampleRate, timeSignature, loopEnabled, loopStartSamples,
                  loopEndSamples, lockOwner, local, written, listVars, trackVars, unitVars>>

SettingUp == pc[AudioThread] = "idle"

driver_advancePosition(numSamples) ==
    /\ pc[AudioThread] \in {"idle", "driver_advancePosition"}
    /\ samplePosition <= MaxPos
    /\ samplePosition' = IF isPlayingNow THEN samplePosition + numSamples
                         ELSE samplePosition
    /\ pc' = [pc EXCEPT ![AudioThread] = "driver_performLoopIfNeeded"]
    /\ notes' = <<>>
    /\ last' = Returned("advancePosition", FALSE) @@ [numSamples |-> numSamples]
    /\ UNCHANGED notTheDriver

\* the loop step jumping to the loop end
driver_performLoopIfNeeded_ToEnd ==
    /\ pc[AudioThread] = "driver_performLoopIfNeeded"
    /\ IF shouldLoopNow
       THEN samplePosition' = loopEndSamples /\ last' = Returned("performLoopIfNeeded", TRUE)
       ELSE samplePosition' = samplePosition /\ last' = Returned("performLoopIfNeeded", FALSE)
    /\ pc' = [pc EXCEPT ![AudioThread] = "driver_process"]
    /\ notes' = <<>>
    /\ UNCHANGED notTheDriver

driver_performLoopIfNeeded ==
    /\ pc[AudioThread] = "driver_performLoopIfNeeded"
    /\ IF shouldLoopNow
       THEN samplePosition' = loopStartSamples /\ last' = Returned("performLoopIfNeeded", TRUE)
       ELSE samplePosition' = samplePosition /\ last' = Returned("performLoopIfNeeded", FALSE)
    /\ pc' = [pc EXCEPT ![AudioThread] = "driver_process"]
    /\ notes' = <<>>
    /\ UNCHANGED notTheDriver

\* step (3): the tracks are processed at the position the transport now holds
driver_process ==
    /\ pc[AudioThread] = "driver_process"
    /\ pc' = [pc EXCEPT ![AudioThread] = "driver_advancePosition"]
    /\ notes' = <<>>
    /\ last' = Returned("process", FALSE)
    /\ UNCHANGED <<samplePosition, notTheDriver>>

DriverStep ==
    \/ \E numSamples \in BlockSizeArgs : driver_advancePosition(numSamples)
    \/ driver_performLoopIfNeeded
    \/ driver_process

NextDriver ==
    \/ SettingUp /\ play
    \/ SettingUp /\ pause
    \/ SettingUp /\ stop
    \/ SettingUp /\ startRecording
    \/ \E position \in PosArgs : SettingUp /\ setSamplePosition(position)
    \/ \E enabled \in BOOLEAN : SettingUp /\ setLooping(enabled)
    \/ \E startSamples \in PosArgs, endSamples \in PosArgs :
          SettingUp /\ setLoopRange(startSamples, endSamples)
    \/ \E numSamples \in BlockSizeArgs : driver_advancePosition(numSamples)
    \/ driver_performLoopIfNeeded
    \/ driver_process

SpecDriver == Init /\ [][NextDriver]_vars /\ WF_vars(DriverStep)

----------------------------------------------------------------------------
(* Property bags (juce::var holding a DynamicObject) are functions from     *)
(* property names to values.  A property that is absent reads as the void  *)
(* var, which converts to 0, false, the empty string or no array.          *)

numProp(obj, key)   == IF key \in DOMAIN obj THEN obj[key] ELSE 0
boolProp(obj, key)  == IF key \in DOMAIN obj THEN obj[key] ELSE FALSE
strProp(obj, key)   == IF key \in DOMAIN obj THEN obj[key] ELSE <<>>
arrayProp(obj, key) == IF key \in DOMAIN obj THEN obj[key] ELSE <<>>

(* juce::Colour is four bytes <<alpha, red, green, blue>>; its string form  *)
(* is the hexadecimal number without leading zeros, as a sequence of       *)
(* digits 0..15.                                                           *)

DefaultColour == <<255, 0, 212, 255>>

RECURSIVE stripLeadingZeros(_)
stripLeadingZeros(digits) ==
    IF Len(digits) > 1 /\ digits[1] = 0 THEN stripLeadingZeros(Tail(digits))
    ELSE digits

RECURSIVE lastEightDigits(_)
lastEightDigits(digits) ==
    IF Len(digits) < 8 THEN lastEightDigits(<<0>> \o digits)
    ELSE IF Len(digits) > 8 THEN lastEightDigits(Tail(digits))
    ELSE digits

Colour_toString(c) ==
    stripLeadingZeros(<<c[1] \div 16, c[1] % 16, c[2] \div 16, c[2] % 16,
                        c[3] \div 16, c[3] % 16, c[4] \div 16, c[4] % 16>>)

Colour_fromString_LeftAligned(str) ==
    LET d == SubSeq(str \o <<0, 0, 0, 0, 0, 0, 0, 0>>, 1, 8)
    IN  <<16 * d[1] + d[2], 16 * d[3] + d[4], 16 * d[5] + d[6], 16 * d[7] + d[8]>>

Colour_fromString(str) ==
    LET d == lastEightDigits(str)
    IN  <<16 * d[1] + d[2], 16 * d[3] + d[4], 16 * d[5] + d[6], 16 * d[7] + d[8]>>

(* juce::Uuid: identities are positive numbers, 0 is the null Uuid *)

Uuid_toString(id) == <<"uuid", id>>

Uuid_fromString(str) ==
    IF Len(str) = 2 /\ str[1] = "uuid" THEN str[2] ELSE 0

----------------------------------------------------------------------------
(* Clips *)

Clip ==
    [kind |-> "Clip", name |-> <<"Clip">>, colour |-> DefaultColour,
     startPosition |-> 0, length |-> 0, offset |-> 0,
     audioFile |-> <<>>, hasReader |-> FALSE, midiData |-> <<>>]

AudioClip == [Clip EXCEPT !.kind = "AudioClip"]

MidiClip == [Clip EXCEPT !.kind = "MidiClip"]

NoReader == [exists |-> FALSE, lengthInSamples |-> 0, fileNameWithoutExtension |-> <<>>]

loadAudioFile(clip, reader) ==
    IF reader.exists
    THEN [clip EXCEPT !.hasReader = TRUE,
                      !.length = reader.lengthInSamples,
                      !.name = reader.fileNameWithoutExtension]
    ELSE clip

AudioClip_setAudioFile(clip, file, reader) ==
    loadAudioFile([clip EXCEPT !.audioFile = file], reader)

MidiClip_setMidiSequence(clip, seq) == [clip EXCEPT !.midiData = seq]

Clip_setStartPosition(clip, pos) == [clip EXCEPT !.startPosition = max(0, pos)]

Clip_setLength(clip, len) == [clip EXCEPT !.length = max(0, len)]

Clip_setOffset(clip, off) == [clip EXCEPT !.offset = max(0, off)]

getEndPosition(clip) == clip.startPosition + clip.length

containsPosition_Closed(clip, position) ==
    position >= clip.startPosition /\ position <= getEndPosition(clip)

containsPosition(clip, position) ==
    position >= clip.startPosition /\ position < getEndPosition(clip)

Clip_toVar(clip) ==
    [name |-> clip.name, colour |-> Colour_toString(clip.colour),
     startPosition |-> clip.startPosition, length |-> clip.length,
     offset |-> clip.offset]

AudioClip_toVar(clip) ==
    Clip_toVar(clip) @@ [type |-> "audio", audioFile |-> clip.audioFile]

MidiClip_toVar(clip) ==
    Clip_toVar(clip) @@ [type |-> "midi", midiEvents |-> clip.midiData]

toVarOfClip(clip) ==
    CASE clip.kind = "AudioClip" -> AudioClip_toVar(clip)
      [] clip.kind = "MidiClip"  -> MidiClip_toVar(clip)
      [] OTHER                   -> Clip_toVar(clip)

Clip_fromVar(clip, data) ==
    [clip EXCEPT !.name = strProp(data, "name"),
                 !.colour = Colour_fromString(strProp(data, "colour")),
                 !.startPosition = numProp(data, "startPosition"),
                 !.length = numProp(data, "length"),
                 !.offset = numProp(data, "offset")]

----------------------------------------------------------------------------
(* Tracks *)

TrackTypes == <<"Audio", "Midi", "Group", "Master">>

typeCode(type) == CHOOSE n \in 0..3 : TrackTypes[n + 1] = type

Track(type, name, id) ==
    [type |-> type, name |-> name, colour |-> DefaultColour,
     id |-> id, constructedId |-> id, index |-> 0,
     solo |-> FALSE, muted |-> FALSE, armed |-> FALSE,
     volume |-> 1, pan |-> 0,
     pluginSlots |-> <<>>, clips |-> <<>>]

Track_toVar(track) ==
    [type |-> typeCode(track.type), name |-> track.name,
     colour |-> Colour_toString(track.colour), id |-> Uuid_toString(track.id),
     solo |-> track.solo, muted |-> track.muted, armed |-> track.armed,
     volume |-> track.volume, pan |-> track.pan,
     clips |-> [k \in 1..Len(track.clips) |-> toVarOfClip(track.clips[k])]]

Track_fromVar(track, data) ==
    [track EXCEPT
        !.name = strProp(data, "name"),
        !.colour = Colour_fromString(strProp(data, "colour")),
        !.id = Uuid_fromString(strProp(data, "id")),
        !.solo = boolProp(data, "solo"),
        !.muted = boolProp(data, "muted"),
        !.armed = boolProp(data, "armed"),
        !.volume = numProp(data, "volume"),
        !.pan = numProp(data, "pan"),
        !.clips = [k \in 1..Len(arrayProp(data, "clips")) |->
                      Clip_fromVar(Clip, arrayProp(data, "clips")[k])]]

----------------------------------------------------------------------------
(* Track collection.  C++ positions are 0-based: position k is tracks[k + 1]. *)
(* A name is the sequence of its space-separated parts.                    *)

notTheList == <<transportVars, notes, last, lockVars, trk, unitVars>>

noTrackCall == lastTrack' = NoTrackCall /\ trkNotes' = 0

numTracks == Len(tracks)

validIndex(index) == index >= 0 /\ index < numTracks

Note(kind, index, to) == [kind |-> kind, index |-> index, to |-> to]

changeMessage == Note("changeMessage", 0 - 1, 0 - 1)

ListCall(op, index, to, name) == [op |-> op, index |-> index, to |-> to, name |-> name]

eraseAt(seq, index) ==
    [k \in 1..(Len(seq) - 1) |-> IF k <= index THEN seq[k] ELSE seq[k + 1]]

insertAt_Front(seq, index, elem) == <<elem>> \o seq

insertAt(seq, index, elem) ==
    [k \in 1..(Len(seq) + 1) |->
        IF k <= index THEN seq[k]
        ELSE IF k = index + 1 THEN elem
        ELSE seq[k - 1]]

generateTrackName(baseName) == <<baseName, nextTrackNumber>>

updateTrackIndices_Stale(ts) == ts

updateTrackIndices(ts) == [k \in 1..Len(ts) |-> [ts[k] EXCEPT !.index = k - 1]]

addTrack(op, type, baseName, name) ==
    LET trackName == IF name = <<>> THEN generateTrackName(baseName) ELSE name
        index     == numTracks
        track     == [Track(type, trackName, nextUuid) EXCEPT !.index = index]
    IN  /\ numTracks < MaxTracks
        /\ nextUuid <= MaxCreated
        /\ tracks' = Append(tracks, track)
        /\ nextUuid' = nextUuid + 1
        /\ nextTrackNumber' = IF name = <<>> THEN nextTrackNumber + 1 ELSE nextTrackNumber
        /\ defaultAdded' = IF name = <<>>
                           THEN [defaultAdded EXCEPT ![baseName] = @ + 1]
                           ELSE defaultAdded
        /\ listNotes' = <<Note("trackAdded", index, 0 - 1), changeMessage>>
        /\ lastList' = ListCall(op, 0 - 1, 0 - 1, name)
        /\ proc' = NoProc
        /\ noTrackCall
        /\ UNCHANGED <<selectedTrackIndex, masterTrack, notTheList>>

addAudioTrack(name) == addTrack("addAudioTrack", "Audio", "Audio", name)

addMidiTrack(name) == addTrack("addMidiTrack", "Midi", "MIDI", name)

addGroupTrack(name) == addTrack("addGroupTrack", "Group", "Group", name)

removeTrack(index) ==
    /\ IF validIndex(index)
       THEN LET erased == updateTrackIndices(eraseAt(tracks, index))
            IN  /\ tracks' = erased
                /\ selectedTrackIndex' = IF selectedTrackIndex >= Len(erased)
                                         THEN Len(erased) - 1
                                         ELSE selectedTrackIndex
                /\ listNotes' = <<Note("trackRemoved", index, 0 - 1), changeMessage>>
       ELSE /\ UNCHANGED <<tracks, selectedTrackIndex>>
            /\ listNotes' = <<>>
    /\ lastList' = ListCall("removeTrack", index, 0 - 1, <<>>)
    /\ proc' = NoProc
    /\ noTrackCall
    /\ UNCHANGED <<nextTrackNumber, nextUuid, masterTrack, defaultAdded, notTheList>>

moveTrack(fromIndex, toIndex) ==
    /\ IF validIndex(fromIndex) /\ validIndex(toIndex) /\ fromIndex # toIndex
       THEN /\ tracks' = updateTrackIndices(
                             insertAt(eraseAt(tracks, fromIndex), toIndex,
                                      tracks[fromIndex + 1]))
            /\ selectedTrackIndex' =
                  IF selectedTrackIndex = fromIndex THEN toIndex
                  ELSE IF fromIndex < selectedTrackIndex /\ toIndex >= selectedTrackIndex
                  THEN selectedTrackIndex - 1
                  ELSE IF fromIndex > selectedTrackIndex /\ toIndex <= selectedTrackIndex
                  THEN selectedTrackIndex + 1
                  ELSE selectedTrackIndex
            /\ listNotes' = <<Note("trackMoved", fromIndex, toIndex), changeMessage>>
       ELSE /\ UNCHANGED <<tracks, selectedTrackIndex>>
            /\ listNotes' = <<>>
    /\ lastList' = ListCall("moveTrack", fromIndex, toIndex, <<>>)
    /\ proc' = NoProc
    /\ noTrackCall
    /\ UNCHANGED <<nextTrackNumber, nextUuid, masterTrack, defaultAdded, notTheList>>

duplicateTrack(index) ==
    /\ IF validIndex(index)
       THEN LET original == tracks[index + 1]
                data     == Track_toVar(original)
                created  == Track(original.type, original.name \o <<"Copy">>, nextUuid)
                hydrated == Track_fromVar(created, data)
                newTrack == [hydrated EXCEPT !.name = original.name \o <<"Copy">>]
                newIndex == index + 1
            IN  /\ numTracks <= MaxTracks
                /\ nextUuid <= MaxCreated
                /\ tracks' = updateTrackIndices(
                                 insertAt(tracks, newIndex,
                                          [newTrack EXCEPT !.index = newIndex]))
                /\ nextUuid' = nextUuid + 1
                /\ listNotes' = <<Note("trackAdded", newIndex, 0 - 1), changeMessage>>
       ELSE /\ UNCHANGED <<tracks, nextUuid>>
            /\ listNotes' = <<>>
    /\ lastList' = ListCall("duplicateTrack", index, 0 - 1, <<>>)
    /\ proc' = NoProc
    /\ noTrackCall
    /\ UNCHANGED <<selectedTrackIndex, nextTrackNumber, masterTrack, defaultAdded,
                   notTheList>>

clear ==
    /\ tracks' = <<>>
    /\ selectedTrackIndex' = 0 - 1
    /\ nextTrackNumber' = 1
    /\ defaultAdded' = [b \in DOMAIN defaultAdded |-> 0]
    /\ listNotes' = <<changeMessage>>
    /\ lastList' = ListCall("clear", 0 - 1, 0 - 1, <<>>)
    /\ proc' = NoProc
    /\ noTrackCall
    /\ UNCHANGED <<nextUuid, masterTrack, notTheList>>

setSelectedTrackIndex(index) ==
    /\ IF index >= 0 - 1 /\ index < numTracks /\ index # selectedTrackIndex
       THEN /\ selectedTrackIndex' = index
            /\ listNotes' = <<Note("selectionChanged", index, 0 - 1), changeMessage>>
       ELSE /\ UNCHANGED selectedTrackIndex
            /\ listNotes' = <<>>
    /\ lastList' = ListCall("setSelectedTrackIndex", index, 0 - 1, <<>>)
    /\ proc' = NoProc
    /\ noTrackCall
    /\ UNCHANGED <<tracks, nextTrackNumber, nextUuid, masterTrack, defaultAdded,
                   notTheList>>

defaultTrackName(type) == IF type = "Midi" THEN <<"MIDI">> ELSE <<type>>

RECURSIVE loadedTracks(_, _, _)
loadedTracks(arr, acc, uuid) ==
    IF arr = <<>> THEN acc
    ELSE LET trackVar == Head(arr)
             code     == numProp(trackVar, "type")
         IN  IF code \in {0, 1, 2}
             THEN loadedTracks(Tail(arr),
                               Append(acc,
                                      [Track_fromVar(Track(TrackTypes[code + 1],
                                                           defaultTrackName(TrackTypes[code + 1]),
                                                           uuid),
                                                     trackVar)
                                          EXCEPT !.index = Len(acc)]),
                               uuid + 1)
             ELSE loadedTracks(Tail(arr), acc, uuid)

loadFromProject(project) ==
    LET loaded == loadedTracks(project.trackData, <<>>, nextUuid)
    IN  /\ Len(loaded) <= MaxTracks
        /\ nextUuid + Len(loaded) <= MaxCreated + 1
        /\ tracks' = loaded
        /\ selectedTrackIndex' = 0 - 1
        /\ nextTrackNumber' = 1
        /\ defaultAdded' = [b \in DOMAIN defaultAdded |-> 0]
        /\ nextUuid' = nextUuid + Len(loaded)
        /\ masterTrack' = IF project.masterIsObject
                          THEN Track_fromVar(masterTrack, project.masterData)
                          ELSE masterTrack
        /\ listNotes' = <<changeMessage, changeMessage>>
        /\ lastList' = ListCall("loadFromProject", 0 - 1, 0 - 1, <<>>)
        /\ proc' = NoProc
        /\ noTrackCall
        /\ UNCHANGED notTheList

setSolo(index, s) ==
    /\ validIndex(index)
    /\ tracks' = [tracks EXCEPT ![index + 1].solo = s]
    /\ listNotes' = <<>>
    /\ proc' = NoProc
    /\ lastList' = NoListCall
    /\ noTrackCall
    /\ UNCHANGED <<selectedTrackIndex, nextTrackNumber, nextUuid, masterTrack,
                   defaultAdded, notTheList>>

setMuted(index, m) ==
    /\ validIndex(index)
    /\ tracks' = [tracks EXCEPT ![index + 1].muted = m]
    /\ listNotes' = <<>>
    /\ proc' = NoProc
    /\ lastList' = NoListCall
    /\ noTrackCall
    /\ UNCHANGED <<selectedTrackIndex, nextTrackNumber, nextUuid, masterTrack,
                   defaultAdded, notTheList>>

----------------------------------------------------------------------------
(* Solo handling *)

RECURSIVE anySoloFrom(_)
anySoloFrom(k) ==
    IF k > numTracks THEN FALSE
    ELSE IF tracks[k].solo THEN TRUE
    ELSE anySoloFrom(k + 1)

hasAnySolo == anySoloFrom(1)

isTrackAudible_OwnFlagsOnly(index) ==
    IF index < 0 \/ index >= numTracks THEN FALSE
    ELSE ~(tracks[index + 1].muted /\ ~tracks[index + 1].solo)

isTrackAudible(index) ==
    IF index < 0 \/ index >= numTracks THEN FALSE
    ELSE IF tracks[index + 1].muted THEN FALSE
    ELSE IF hasAnySolo THEN tracks[index + 1].solo
    ELSE TRUE

----------------------------------------------------------------------------
(* Block processing of one track: which steps of processBlock ran *)

AudioTrack_processBlock(track) ==
    IF track.muted /\ ~track.solo
    THEN [bufferCleared |-> TRUE, midiCleared |-> FALSE,
          renderedClips |-> FALSE, ranPluginChain |-> FALSE]
    ELSE [bufferCleared |-> FALSE, midiCleared |-> FALSE,
          renderedClips |-> TRUE, ranPluginChain |-> TRUE]

MidiTrack_processBlock(track) ==
    IF track.muted /\ ~track.solo
    THEN [bufferCleared |-> TRUE, midiCleared |-> TRUE,
          renderedClips |-> FALSE, ranPluginChain |-> FALSE]
    ELSE [bufferCleared |-> FALSE, midiCleared |-> FALSE,
          renderedClips |-> TRUE, ranPluginChain |-> TRUE]

GroupTrack_processBlock(track) ==
    IF track.muted /\ ~track.solo
    THEN [bufferCleared |-> TRUE, midiCleared |-> FALSE,
          renderedClips |-> FALSE, ranPluginChain |-> FALSE]
    ELSE [bufferCleared |-> FALSE, midiCleared |-> FALSE,
          renderedClips |-> FALSE, ranPluginChain |-> TRUE]

processBlock(index) ==
    /\ validIndex(index)
    /\ LET track == tracks[index + 1]
           did   == CASE track.type = "Audio" -> AudioTrack_processBlock(track)
                      [] track.type = "Midi"  -> MidiTrack_processBlock(track)
                      [] track.type = "Group" -> GroupTrack_processBlock(track)
       IN  proc' = [index |-> index, audible |-> isTrackAudible(index),
                    bufferCleared |-> did.bufferCleared,
                    midiCleared |-> did.midiCleared,
                    renderedClips |-> did.renderedClips,
                    ranPluginChain |-> did.ranPluginChain]
    /\ listNotes' = <<>>
    /\ lastList' = NoListCall
    /\ noTrackCall
    /\ UNCHANGED <<tracks, selectedTrackIndex, nextTrackNumber, nextUuid, masterTrack,
                   defaultAdded, notTheList>>

NextTrackList ==
    \/ addAudioTrack(<<>>)
    \/ addMidiTrack(<<>>)
    \/ addGroupTrack(<<>>)
    \/ \E index \in IndexArgs : removeTrack(index)
    \/ \E index \in IndexArgs, s \in BOOLEAN : setSolo(index, s)
    \/ \E index \in IndexArgs, m \in BOOLEAN : setMuted(index, m)
    \/ \E index \in IndexArgs : processBlock(index)

SpecTrackList == Init /\ [][NextTrackList]_vars

----------------------------------------------------------------------------
(* The collection under its structural operations and project loading *)

EmptyBag == [k \in {} |-> 0]

SavedClip ==
    [name |-> <<"Take">>, colour |-> <<15, 15, 0, 0, 0, 0>>,
     startPosition |-> 0 - 1, length |-> 2, offset |-> 0 - 3,
     type |-> "audio", audioFile |-> <<"take.wav">>]

SavedProject ==
    [trackData |->
        <<[type |-> 0, name |-> <<"Kick">>, colour |-> <<15, 15, 15, 15, 0, 0, 0, 0>>,
           id |-> <<"uuid", 7>>, solo |-> FALSE, muted |-> TRUE, armed |-> TRUE,
           volume |-> 3, pan |-> 0 - 2, clips |-> <<SavedClip>>],
          [type |-> 3, name |-> <<"Bus">>],
          [type |-> 1, name |-> <<"Keys">>, id |-> <<"uuid", 7>>, volume |-> 1]>>,
     masterIsObject |-> TRUE,
     masterData |-> [name |-> <<"Main">>, volume |-> 5, id |-> <<"uuid", 9>>]]

EmptyProject ==
    [trackData |-> <<>>, masterIsObject |-> FALSE, masterData |-> EmptyBag]

ProjectArgs == {EmptyProject, SavedProject}

(* Positions handed to the collection: every position of a full list, which *)
(* is past the end of any shorter one; negative positions are driven by      *)
(* NextStructure.                                                            *)
PositionArgs == 0..MaxTracks

NextCollection ==
    \/ addAudioTrack(<<>>)
    \/ addMidiTrack(<<>>)
    \/ addGroupTrack(<<>>)
    \/ \E index \in PositionArgs : removeTrack(index)
    \/ \E fromIndex \in PositionArgs : \E toIndex \in PositionArgs : moveTrack(fromIndex, toIndex)
    \/ \E index \in PositionArgs : duplicateTrack(index)
    \/ clear
    \/ \E project \in ProjectArgs : loadFromProject(project)

SpecCollection == Init /\ [][NextCollection]_vars

(* The collection under additions with default and explicit names *)

NextNaming ==
    \/ \E name \in NameArgs : addAudioTrack(name)
    \/ \E name \in NameArgs : addMidiTrack(name)
    \/ \E name \in NameArgs : addGroupTrack(name)
    \/ \E index \in IndexArgs : removeTrack(index)
    \/ clear

SpecNaming == Init /\ [][NextNaming]_vars

----------------------------------------------------------------------------
(* One track driven on its own: fields, clips, export and import *)

MaxClips == 2           \* clips on the track

TrackNameArgs == {<<"Bass">>}
ColourArgs    == {<<0, 18, 52, 86>>}
VolumeArgs    == {0 - 1, 1, 3}
DbArgs        == {0 - 100, 0, 20}
PanArgs       == {0 - 2, 0, 2}
ClipPosArgs   == (0 - 1)..3
ClipIndexArgs == (0 - 1)..MaxClips

NotePair == <<[time |-> 0, data |-> <<144, 60, 100>>], [time |-> 1, data |-> <<128, 60, 0>>]>>

TakeClip ==
    Clip_setLength(Clip_setStartPosition(
        AudioClip_setAudioFile(AudioClip, <<"take.wav">>, NoReader), 0), 2)

PatternClip ==
    Clip_setOffset(Clip_setLength(Clip_setStartPosition(
        MidiClip_setMidiSequence(MidiClip, NotePair), 1), 2), 1)

MarkerClip == Clip_setLength(Clip_setStartPosition(Clip, 1), 0 - 1)

ClipArgs == {TakeClip, PatternClip, MarkerClip}

BagArgs == {SavedProject.trackData[1], EmptyBag}

TrackCall(op, index, to, ret) == [op |-> op, index |-> index, to |-> to, ret |-> ret]

notTheTrack == <<transportVars, notes, last, lockVars, tracks, selectedTrackIndex,
                 nextTrackNumber, nextUuid, masterTrack, defaultAdded, proc, unitVars>>

noListCall == lastList' = NoListCall /\ listNotes' = <<>>

(* Decibels::decibelsToGain on the decibel values explored *)
decibelsToGain(db) ==
    CASE db <= 0 - 100 -> 0
      [] db = 0        -> 1
      [] db = 20       -> 10

Track_setName(newName) ==
    /\ trk' = [trk EXCEPT !.name = newName]
    /\ trkNotes' = 1
    /\ lastTrack' = NoTrackCall
    /\ noListCall
    /\ UNCHANGED notTheTrack

Track_setColour(c) ==
    /\ trk' = [trk EXCEPT !.colour = c]
    /\ trkNotes' = 1
    /\ lastTrack' = NoTrackCall
    /\ noListCall
    /\ UNCHANGED notTheTrack

Track_setSolo(s) ==
    /\ trk' = [trk EXCEPT !.solo = s]
    /\ trkNotes' = 1
    /\ lastTrack' = NoTrackCall
    /\ noListCall
    /\ UNCHANGED notTheTrack

Track_setMuted(m) ==
    /\ trk' = [trk EXCEPT !.muted = m]
    /\ trkNotes' = 1
    /\ lastTrack' = NoTrackCall
    /\ noListCall
    /\ UNCHANGED notTheTrack

Track_setArmed(a) ==
    /\ trk' = [trk EXCEPT !.armed = a]
    /\ trkNotes' = 1
    /\ lastTrack' = NoTrackCall
    /\ noListCall
    /\ UNCHANGED notTheTrack

setVolume(v) ==
    /\ trk' = [trk EXCEPT !.volume = jlimit(0, 2, v)]
    /\ trkNotes' = 1
    /\ lastTrack' = NoTrackCall
    /\ noListCall
    /\ UNCHANGED notTheTrack

setVolumeDb(db) ==
    /\ trk' = [trk EXCEPT !.volume = jlimit(0, 2, decibelsToGain(db))]
    /\ trkNotes' = 1
    /\ lastTrack' = NoTrackCall
    /\ noListCall
    /\ UNCHANGED notTheTrack

setPan(p) ==
    /\ trk' = [trk EXCEPT !.pan = jlimit(0 - 1, 1, p)]
    /\ trkNotes' = 1
    /\ lastTrack' = NoTrackCall
    /\ noListCall
    /\ UNCHANGED notTheTrack

validClipIndex_Inclusive(index) == index >= 0 /\ index <= Len(trk.clips)

validClipIndex(index) == index >= 0 /\ index < Len(trk.clips)

addClip(clip) ==
    /\ Len(trk.clips) < MaxClips
    /\ trk' = [trk EXCEPT !.clips = Append(@, clip)]
    /\ trkNotes' = 1
    /\ lastTrack' = TrackCall("addClip", 0 - 1, 0 - 1, 0 - 1)
    /\ noListCall
    /\ UNCHANGED notTheTrack

removeClip(index) ==
    /\ IF validClipIndex(index)
       THEN /\ trk' = [trk EXCEPT !.clips = eraseAt(@, index)]
            /\ trkNotes' = 1
       ELSE /\ UNCHANGED trk
            /\ trkNotes' = 0
    /\ lastTrack' = TrackCall("removeClip", index, 0 - 1, 0 - 1)
    /\ noListCall
    /\ UNCHANGED notTheTrack

getClip(index) ==
    /\ lastTrack' = TrackCall("getClip", index, 0 - 1,
                              IF validClipIndex(index) THEN index ELSE 0 - 1)
    /\ trkNotes' = 0
    /\ noListCall
    /\ UNCHANGED <<trk, notTheTrack>>

RECURSIVE firstContaining(_, _, _)
firstContaining(clips, k, position) ==
    IF k > Len(clips) THEN 0 - 1
    ELSE IF containsPosition(clips[k], position) THEN k - 1
    ELSE firstContaining(clips, k + 1, position)

getClipAtPosition(position) ==
    /\ lastTrack' = TrackCall("getClipAtPosition", position, 0 - 1,
                              firstContaining(trk.clips, 1, position))
    /\ trkNotes' = 0
    /\ noListCall
    /\ UNCHANGED <<trk, notTheTrack>>

fromVar(data) ==
    /\ trk' = Track_fromVar(trk, data)
    /\ trkNotes' = 0
    /\ lastTrack' = TrackCall("fromVar", 0 - 1, 0 - 1, 0 - 1)
    /\ noListCall
    /\ UNCHANGED notTheTrack

(* trk.toVar() handed to fromVar of a newly constructed track of the same type *)
exportThenImport ==
    /\ lastTrack' = TrackCall("exportThenImport", 0 - 1, 0 - 1,
                              Track_fromVar(Track(trk.type, defaultTrackName(trk.type),
                                                  0 - 3),
                                            Track_toVar(trk)))
    /\ trkNotes' = 0
    /\ noListCall
    /\ UNCHANGED <<trk, notTheTrack>>

NextTrack ==
    \/ \E newName \in TrackNameArgs : Track_setName(newName)
    \/ \E c \in ColourArgs : Track_setColour(c)
    \/ \E s \in BOOLEAN : Track_setSolo(s)
    \/ \E m \in BOOLEAN : Track_setMuted(m)
    \/ \E a \in BOOLEAN : Track_setArmed(a)
    \/ \E v \in VolumeArgs : setVolume(v)
    \/ \E db \in DbArgs : setVolumeDb(db)
    \/ \E p \in PanArgs : setPan(p)
    \/ \E clip \in ClipArgs : addClip(clip)
    \/ \E data \in BagArgs : fromVar(data)
    \/ exportThenImport

SpecTrack == Init /\ [][NextTrack]_vars

(* The clips of one track *)

NextClips ==
    \/ \E clip \in ClipArgs : addClip(clip)
    \/ \E index \in ClipIndexArgs : removeClip(index)
    \/ \E index \in ClipIndexArgs : getClip(index)
    \/ \E position \in ClipPosArgs : getClipAtPosition(position)
    \/ exportThenImport

SpecClips == Init /\ [][NextClips]_vars

----------------------------------------------------------------------------
(* Positional operations of the collection and of one track, side by side *)

MaxSlots == 2           \* plugin slots on the track

SelectArgs    == (0 - 2)..MaxTracks
SlotIndexArgs == (0 - 1)..MaxSlots

PluginSlot == [hasPlugin |-> FALSE, enabled |-> TRUE]

ListQuery(op, index, ret) ==
    [op |-> op, index |-> index, to |-> 0 - 1, name |-> <<>>, ret |-> ret]

getTrack(index) ==
    /\ lastList' = ListQuery("getTrack", index, IF validIndex(index) THEN index ELSE 0 - 1)
    /\ listNotes' = <<>>
    /\ proc' = NoProc
    /\ noTrackCall
    /\ UNCHANGED <<tracks, selectedTrackIndex, nextTrackNumber, nextUuid, masterTrack,
                   defaultAdded, notTheList>>

validSlotIndex(index) == index >= 0 /\ index < Len(trk.pluginSlots)

getPluginSlot(index) ==
    /\ lastTrack' = TrackCall("getPluginSlot", index, 0 - 1,
                              IF validSlotIndex(index) THEN index ELSE 0 - 1)
    /\ trkNotes' = 0
    /\ noListCall
    /\ UNCHANGED <<trk, notTheTrack>>

addPluginSlot ==
    /\ Len(trk.pluginSlots) < MaxSlots
    /\ trk' = [trk EXCEPT !.pluginSlots = Append(@, PluginSlot)]
    /\ trkNotes' = 1
    /\ lastTrack' = TrackCall("addPluginSlot", 0 - 1, 0 - 1, 0 - 1)
    /\ noListCall
    /\ UNCHANGED notTheTrack

toggleEnabled(index) ==
    /\ validSlotIndex(index)
    /\ trk' = [trk EXCEPT !.pluginSlots[index + 1].enabled = ~@]
    /\ trkNotes' = 0
    /\ lastTrack' = NoTrackCall
    /\ noListCall
    /\ UNCHANGED notTheTrack

removePluginSlot(index) ==
    /\ IF validSlotIndex(index)
       THEN /\ trk' = [trk EXCEPT !.pluginSlots = eraseAt(@, index)]
            /\ trkNotes' = 1
       ELSE /\ UNCHANGED trk
            /\ trkNotes' = 0
    /\ lastTrack' = TrackCall("removePluginSlot", index, 0 - 1, 0 - 1)
    /\ noListCall
    /\ UNCHANGED notTheTrack

movePluginSlot(fromIndex, toIndex) ==
    /\ IF validSlotIndex(fromIndex) /\ validSlotIndex(toIndex) /\ fromIndex # toIndex
       THEN /\ trk' = [trk EXCEPT !.pluginSlots =
                          insertAt(eraseAt(@, fromIndex), toIndex, @[fromIndex + 1])]
            /\ trkNotes' = 1
       ELSE /\ UNCHANGED trk
            /\ trkNotes' = 0
    /\ lastTrack' = TrackCall("movePluginSlot", fromIndex, toIndex, 0 - 1)
    /\ noListCall
    /\ UNCHANGED notTheTrack

outOfRange(index, seq) == index < 0 \/ index >= Len(seq)

(* The collection is called with positions that are out of range (moveTrack  *)
(* also with two equal positions); its structural changes are the subject of *)
(* SpecCollection.  The track is called with every position.                 *)
NextStructure ==
    \/ addAudioTrack(<<>>)
    \/ \E index \in IndexArgs : outOfRange(index, tracks) /\ removeTrack(index)
    \/ \E fromIndex \in IndexArgs : \E toIndex \in IndexArgs :
          /\ outOfRange(fromIndex, tracks) \/ outOfRange(toIndex, tracks)
                \/ fromIndex = toIndex
          /\ moveTrack(fromIndex, toIndex)
    \/ \E index \in IndexArgs : outOfRange(index, tracks) /\ duplicateTrack(index)
    \/ \E index \in SelectArgs : setSelectedTrackIndex(index)
    \/ \E index \in IndexArgs : getTrack(index)
    \/ addClip(TakeClip)
    \/ \E index \in ClipIndexArgs : removeClip(index)
    \/ \E index \in ClipIndexArgs : getClip(index)
    \/ addPluginSlot
    \/ \E index \in SlotIndexArgs : toggleEnabled(index)
    \/ \E index \in SlotIndexArgs : removePluginSlot(index)
    \/ \E fromIndex \in SlotIndexArgs : \E toIndex \in SlotIndexArgs :
          movePluginSlot(fromIndex, toIndex)
    \/ \E index \in SlotIndexArgs : getPluginSlot(index)

SpecStructure == Init /\ [][NextStructure]_vars

----------------------------------------------------------------------------
(* The selection while the collection changes.  The type of a track takes  *)
(* no part in the selection: tracks are added as audio tracks, and a       *)
(* loaded project brings the other types.                                  *)

selectNextTrack ==
    /\ IF selectedTrackIndex < numTracks - 1
       THEN /\ selectedTrackIndex' = selectedTrackIndex + 1
            /\ listNotes' = <<Note("selectionChanged", selectedTrackIndex + 1, 0 - 1),
                              changeMessage>>
       ELSE /\ UNCHANGED selectedTrackIndex
            /\ listNotes' = <<>>
    /\ lastList' = ListCall("selectNextTrack", 0 - 1, 0 - 1, <<>>)
    /\ proc' = NoProc
    /\ noTrackCall
    /\ UNCHANGED <<tracks, nextTrackNumber, nextUuid, masterTrack, defaultAdded,
                   notTheList>>

selectPreviousTrack_ToNone ==
    /\ IF selectedTrackIndex >= 0
       THEN /\ selectedTrackIndex' = selectedTrackIndex - 1
            /\ listNotes' = <<Note("selectionChanged", selectedTrackIndex - 1, 0 - 1),
                              changeMessage>>
       ELSE /\ UNCHANGED selectedTrackIndex
            /\ listNotes' = <<>>
    /\ lastList' = ListCall("selectPreviousTrack", 0 - 1, 0 - 1, <<>>)
    /\ proc' = NoProc
    /\ noTrackCall
    /\ UNCHANGED <<tracks, nextTrackNumber, nextUuid, masterTrack, defaultAdded,
                   notTheList>>

selectPreviousTrack ==
    /\ IF selectedTrackIndex > 0
       THEN /\ selectedTrackIndex' = selectedTrackIndex - 1
            /\ listNotes' = <<Note("selectionChanged", selectedTrackIndex - 1, 0 - 1),
                              changeMessage>>
       ELSE /\ UNCHANGED selectedTrackIndex
            /\ listNotes' = <<>>
    /\ lastList' = ListCall("selectPreviousTrack", 0 - 1, 0 - 1, <<>>)
    /\ proc' = NoProc
    /\ noTrackCall
    /\ UNCHANGED <<tracks, nextTrackNumber, nextUuid, masterTrack, defaultAdded,
                   notTheList>>

NextSelection ==
    \/ addAudioTrack(<<>>)
    \/ \E index \in PositionArgs : removeTrack(index)
    \/ \E fromIndex \in PositionArgs : \E toIndex \in PositionArgs : moveTrack(fromIndex, toIndex)
    \/ \E index \in PositionArgs : duplicateTrack(index)
    \/ clear
    \/ \E project \in ProjectArgs : loadFromProject(project)
    \/ \E index \in SelectArgs : setSelectedTrackIndex(index)
    \/ selectNextTrack
    \/ selectPreviousTrack

SpecSelection == Init /\ [][NextSelection]_vars

----------------------------------------------------------------------------
(* Peak metering of one track.  Levels and magnitudes are floats in the     *)
(* source; they are modelled in hundredths of full scale, and a product of  *)
(* floats by the floor of the exact product.                                *)

MagnitudeArgs == {<<100>>, <<0, 100>>, <<98, 0, 100>>, <<0, 0>>}

jmin(a, b) == IF b < a THEN b ELSE a

\* buffer.getMagnitude(ch, 0, numSamples): the buffer is given by the magnitude of each channel
getMagnitude(buffer, ch) == buffer[ch + 1]

\* current * 0.99f
decayed(current) == (current * 99) \div 100

peakAfter(buffer, ch) ==
    LET peak    == getMagnitude(buffer, ch)
        current == peakLevels[ch + 1]
    IN  IF peak > current THEN peak ELSE decayed(current)

updatePeakLevels(buffer) ==
    /\ peakLevels' = [c \in 1..2 |-> IF c - 1 < jmin(Len(buffer), 2)
                                     THEN peakAfter(buffer, c - 1)
                                     ELSE peakLevels[c]]
    /\ lastUnit' = [op |-> "updatePeakLevels", buffer |-> buffer]
    /\ UNCHANGED notThePeaks

getPeakLevel(channel) ==
    /\ lastUnit' = [op |-> "getPeakLevel", channel |-> channel,
                    ret |-> IF channel >= 0 /\ channel < 2
                            THEN peakLevels[channel + 1] ELSE 0]
    /\ UNCHANGED <<peakLevels, notThePeaks>>

resetPeaks ==
    /\ peakLevels' = <<0, 0>>
    /\ lastUnit' = [op |-> "resetPeaks"]
    /\ UNCHANGED notThePeaks

NextMeter ==
    \/ \E buffer \in MagnitudeArgs : updatePeakLevels(buffer)
    \/ \E channel \in {0 - 1, 0, 1, 2} : getPeakLevel(channel)
    \/ resetPeaks

SpecMeter == Init /\ [][NextMeter]_vars

----------------------------------------------------------------------------
(* The channel filter of a MIDI track.  A juce::MidiMessage is the sequence *)
(* of its bytes; a juce::MidiBuffer is a sequence of events ordered by      *)
(* sample position.                                                         *)

MaxEvents == 2          \* events in a MIDI buffer handed to processBlock

MessageArgs == {<<144, 60, 100>>, <<145, 60, 100>>, <<143, 60, 0>>, <<248>>}

BufferOf(messages) ==
    [k \in 1..Len(messages) |-> [message |-> messages[k], samplePosition |-> k - 1]]

MidiBufferArgs ==
    {BufferOf(messages) : messages \in UNION {[1..n -> MessageArgs] : n \in 0..MaxEvents}}

ChannelArgs == {0 - 1, 0, 1, 2, 17}

\* MidiMessage::getChannel: 1..16 for a channel message, 0 otherwise
getChannel(message) ==
    IF message[1] \div 16 # 15 THEN (message[1] % 16) + 1 ELSE 0

\* MidiMessage::isForChannel
isForChannel(message, channel) ==
    (message[1] % 16) = channel - 1 /\ message[1] \div 16 # 15

\* MidiBuffer::addEvent: after the events at the same or an earlier sample position
addEvent(buffer, message, samplePos) ==
    LET before == SelectSeq(buffer, LAMBDA e : e.samplePosition <= samplePos)
        after  == SelectSeq(buffer, LAMBDA e : e.samplePosition > samplePos)
    IN  before \o <<[message |-> message, samplePosition |-> samplePos]>> \o after

RECURSIVE filterFrom(_, _, _)
filterFrom(midiMessages, k, filtered) ==
    IF k > Len(midiMessages) THEN filtered
    ELSE LET msg == midiMessages[k].message
         IN  filterFrom(midiMessages, k + 1,
                        IF getChannel(msg) = midiTrack.midiChannel
                           \/ ~isForChannel(msg, midiTrack.midiChannel)
                        THEN addEvent(filtered, msg, midiMessages[k].samplePosition)
                        ELSE filtered)

MidiTrack_setMidiChannel(channel) ==
    /\ midiTrack' = [midiTrack EXCEPT !.midiChannel = jlimit(0, 16, channel)]
    /\ lastUnit' = [op |-> "setMidiChannel", channel |-> channel]
    /\ UNCHANGED notTheMidiTrack

MidiTrack_setMuted(shouldMute) ==
    /\ midiTrack' = [midiTrack EXCEPT !.muted = shouldMute]
    /\ lastUnit' = [op |-> "setMuted", shouldMute |-> shouldMute]
    /\ UNCHANGED notTheMidiTrack

\* MidiTrack::processBlock on a track without clips and plug-ins: what it leaves in midiMessages
MidiTrack_process(midiMessages) ==
    /\ lastUnit' = [op |-> "processBlock", midiMessages |-> midiMessages,
                    gated |-> MidiTrack_processBlock(midiTrack).midiCleared,
                    out |-> IF MidiTrack_processBlock(midiTrack).midiCleared THEN <<>>
                            ELSE IF midiTrack.midiChannel > 0
                                 THEN filterFrom(midiMessages, 1, <<>>)
                                 ELSE midiMessages]
    /\ UNCHANGED <<midiTrack, notTheMidiTrack>>

NextMidiTrack ==
    \/ \E channel \in ChannelArgs : MidiTrack_setMidiChannel(channel)
    \/ \E shouldMute \in BOOLEAN : MidiTrack_setMuted(shouldMute)
    \/ \E midiMessages \in MidiBufferArgs : MidiTrack_process(midiMessages)

SpecMidiTrack == Init /\ [][NextMidiTrack]_vars

----------------------------------------------------------------------------
(* Rendering a MIDI clip.  An event of a juce::MidiMessageSequence is its   *)
(* timestamp, the bytes of its message and the holder its noteOffObject     *)
(* points at.  Timestamps are in seconds in the source and are modelled in  *)
(* milliseconds; a comparison of two times in seconds is made on both sides *)
(* multiplied by the same positive factor, so it is exact.                  *)

MaxRenderPos == 4       \* play positions of render requests: 0..MaxRenderPos

holder(time, data, noteOffObject) ==
    [time |-> time, data |-> data, noteOffObject |-> noteOffObject]

RenderSequenceArgs ==
    {<<holder(1, <<144, 60, 100>>, 2), holder(3, <<128, 60, 0>>, 0)>>,
     <<holder(2, <<192, 5>>, 0)>>}

RenderPosArgs    == 0..MaxRenderPos
BlockArgs        == {2, 4}
RenderRateArgs   == {1000, 2000}
ClipStartArgs    == {0, 1}
ClipLengthArgs   == {0, 8}
ClipOffsetArgs   == {0, 1}

\* startTimeInClip = playPosition - startPosition + offset, in samples
startTimeInClip(playPosition) == playPosition - midiClip.startPosition + midiClip.offset

\* eventTime >= startSec && eventTime < endSec, where startSec = startTimeInClip / sampleRate
\* and endSec = (startTimeInClip + numSamples / sampleRate * 1000.0) / sampleRate
inRenderWindow(time, playPosition, numSamples, rate) ==
    /\ time * rate >= startTimeInClip(playPosition) * 1000
    /\ time * rate * rate <
           startTimeInClip(playPosition) * 1000 * rate + numSamples * 1000 * 1000

\* static_cast<int>((eventTime - startSec) * sampleRate)
sampleOffsetOf(time, playPosition, rate) ==
    (time * rate - startTimeInClip(playPosition) * 1000) \div 1000

RECURSIVE renderFrom(_, _, _, _, _)
renderFrom(i, buffer, playPosition, numSamples, rate) ==
    IF i > Len(midiClip.midiData) THEN buffer
    ELSE LET event == midiClip.midiData[i]
         IN  renderFrom(i + 1,
                        IF inRenderWindow(event.time, playPosition, numSamples, rate)
                        THEN addEvent(buffer, event.data,
                                      sampleOffsetOf(event.time, playPosition, rate))
                        ELSE buffer,
                        playPosition, numSamples, rate)

MidiClip_setSequence(seq) ==
    /\ midiClip' = MidiClip_setMidiSequence(midiClip, seq)
    /\ lastUnit' = [op |-> "setMidiSequence"]
    /\ UNCHANGED notTheMidiClip

MidiClip_setStartPosition(pos) ==
    /\ midiClip' = Clip_setStartPosition(midiClip, pos)
    /\ lastUnit' = [op |-> "setStartPosition"]
    /\ UNCHANGED notTheMidiClip

MidiClip_setLength(len) ==
    /\ midiClip' = Clip_setLength(midiClip, len)
    /\ lastUnit' = [op |-> "setLength"]
    /\ UNCHANGED notTheMidiClip

MidiClip_setOffset(off) ==
    /\ midiClip' = Clip_setOffset(midiClip, off)
    /\ lastUnit' = [op |-> "setOffset"]
    /\ UNCHANGED notTheMidiClip

\* getMidi into an empty buffer
getMidi(playPosition, numSamples, rate) ==
    /\ lastUnit' = [op |-> "getMidi", playPosition |-> playPosition,
                    numSamples |-> numSamples, sampleRate |-> rate,
                    buffer |-> IF ~containsPosition(midiClip, playPosition) THEN <<>>
                               ELSE renderFrom(1, <<>>, playPosition, numSamples, rate)]
    /\ UNCHANGED <<midiClip, notTheMidiClip>>

NextMidiRender ==
    \/ \E seq \in RenderSequenceArgs : MidiClip_setSequence(seq)
    \/ \E pos \in ClipStartArgs : MidiClip_setStartPosition(pos)
    \/ \E len \in ClipLengthArgs : MidiClip_setLength(len)
    \/ \E off \in ClipOffsetArgs : MidiClip_setOffset(off)
    \/ \E playPosition \in RenderPosArgs, numSamples \in BlockArgs, rate \in RenderRateArgs :
           getMidi(playPosition, numSamples, rate)

SpecMidiRender == Init /\ [][NextMidiRender]_vars

----------------------------------------------------------------------------
(* Editing the notes of a MIDI clip.  The noteOffObject of a holder is the  *)
(* position in the sequence of the holder it points at, 0 for nullptr and   *)
(* Dangling once that holder has been deleted.                              *)

MaxNotes == 2           \* addNote is called while the sequence holds fewer than MaxNotes pairs of events

NoteNumberArgs  == {60, 62}
StartBeatArgs   == {0, 1}
LengthBeatArgs  == {1}

Dangling == 0 - 1

isNoteOn(data)  == data[1] \div 16 = 9 /\ data[3] > 0

isNoteOff(data) == data[1] \div 16 = 8 \/ (data[1] \div 16 = 9 /\ data[3] = 0)

getNoteNumber(data) == data[2]

\* MidiMessage::noteOn(channel, noteNumber, velocity)
noteOn(channel, noteNumber, vel) == <<144 + (channel - 1), noteNumber, vel>>

\* MidiMessage::noteOff(channel, noteNumber)
noteOff(channel, noteNumber) == <<128 + (channel - 1), noteNumber, 0>>

\* list.insert(at, newEvent): the holders from position at on move up by one
insertHolder(list, at, newEvent) ==
    LET moved == [k \in 1..Len(list) |->
                     IF list[k].noteOffObject >= at
                     THEN [list[k] EXCEPT !.noteOffObject = @ + 1]
                     ELSE list[k]]
    IN  SubSeq(moved, 1, at - 1) \o <<newEvent>> \o SubSeq(moved, at, Len(moved))

\* MidiMessageSequence::addEvent: after the last event that is not later
Sequence_addEvent(list, data, time) ==
    LET notLater == {k \in 1..Len(list) : list[k].time <= time}
        i        == IF notLater = {} THEN 0
                    ELSE CHOOSE k \in notLater : \A other \in notLater : other <= k
    IN  insertHolder(list, i + 1, holder(time, data, 0))

\* MidiMessageSequence::updateMatchedPairs
RECURSIVE updateMatchedPairs(_, _)
updateMatchedPairs(list, i) ==
    IF i > Len(list) THEN list
    ELSE IF ~isNoteOn(list[i].data) THEN updateMatchedPairs(list, i + 1)
    ELSE LET same == {j \in (i + 1)..Len(list) :
                         /\ getNoteNumber(list[j].data) = getNoteNumber(list[i].data)
                         /\ getChannel(list[j].data) = getChannel(list[i].data)
                         /\ (isNoteOff(list[j].data) \/ isNoteOn(list[j].data))}
             cleared == [list EXCEPT ![i].noteOffObject = 0]
         IN  IF same = {} THEN updateMatchedPairs(cleared, i + 1)
             ELSE LET j == CHOOSE first \in same : \A other \in same : first <= other
                  IN  IF isNoteOff(list[j].data)
                      THEN updateMatchedPairs([list EXCEPT ![i].noteOffObject = j], i + 1)
                      ELSE LET newEvent == holder(list[j].time,
                                                  noteOff(getChannel(list[i].data),
                                                          getNoteNumber(list[i].data)),
                                                  0)
                               inserted == insertHolder(cleared, j, newEvent)
                           IN  updateMatchedPairs(
                                   [inserted EXCEPT ![i].noteOffObject = j], i + 1)

\* MidiMessageSequence::getIndexOf, 0-based, -1 when the holder is not in the sequence
getIndexOf(list, holderAt) ==
    IF holderAt >= 1 /\ holderAt <= Len(list) THEN holderAt - 1 ELSE 0 - 1

\* MidiMessageSequence::getIndexOfMatchingKeyUp: searches from index on
getIndexOfMatchingKeyUp(list, index) ==
    LET noteOffAt == list[index + 1].noteOffObject
    IN  IF noteOffAt # 0 /\ noteOffAt >= index + 1 /\ noteOffAt <= Len(list)
        THEN noteOffAt - 1
        ELSE 0 - 1

\* list.remove(index): pointers at the deleted holder dangle, later holders move down
removeAt(list, index) ==
    IF index >= 0 /\ index < Len(list)
    THEN LET moved == [k \in 1..Len(list) |->
                          IF list[k].noteOffObject = index + 1
                          THEN [list[k] EXCEPT !.noteOffObject = Dangling]
                          ELSE IF list[k].noteOffObject > index + 1
                          THEN [list[k] EXCEPT !.noteOffObject = @ - 1]
                          ELSE list[k]]
         IN  SubSeq(moved, 1, index) \o SubSeq(moved, index + 2, Len(moved))
    ELSE list

\* MidiMessageSequence::deleteEvent
deleteEvent(list, index, deleteMatchingNoteUp) ==
    IF index >= 0 /\ index < Len(list)
    THEN removeAt(IF deleteMatchingNoteUp
                  THEN removeAt(list, getIndexOfMatchingKeyUp(list, index))
                  ELSE list,
                  index)
    ELSE list

\* velocity is in hundredths; channel is the default argument 1
addNote(noteNumber, startBeat, lengthBeats, velocity) ==
    /\ Len(midiClip.midiData) + 2 <= 2 * MaxNotes
    /\ LET startSec == (startBeat * 60 * 1000) \div 120
           endSec   == ((startBeat + lengthBeats) * 60 * 1000) \div 120
           vel      == (velocity * 127) \div 100
           withOn   == Sequence_addEvent(midiClip.midiData, noteOn(1, noteNumber, vel), startSec)
           withOff  == Sequence_addEvent(withOn, noteOff(1, noteNumber), endSec)
       IN  midiClip' = [midiClip EXCEPT !.midiData = updateMatchedPairs(withOff, 1)]
    /\ lastUnit' = [op |-> "addNote", noteNumber |-> noteNumber]
    /\ UNCHANGED notTheMidiClip

removeNote(index) ==
    /\ LET list == midiClip.midiData
       IN  midiClip' =
             IF index >= 0 /\ index < Len(list)
             THEN LET noteOnEvent == list[index + 1]
                      first == IF isNoteOn(noteOnEvent.data) /\ noteOnEvent.noteOffObject # 0
                               THEN deleteEvent(list, getIndexOf(list, noteOnEvent.noteOffObject), TRUE)
                               ELSE list
                  IN  [midiClip EXCEPT !.midiData = deleteEvent(first, index, TRUE)]
             ELSE midiClip
    /\ lastUnit' = [op |-> "removeNote", index |-> index]
    /\ UNCHANGED notTheMidiClip

clearNotes ==
    /\ midiClip' = [midiClip EXCEPT !.midiData = <<>>]
    /\ lastUnit' = [op |-> "clearNotes"]
    /\ UNCHANGED notTheMidiClip

NextMidiNotes ==
    \/ \E noteNumber \in NoteNumberArgs, startBeat \in StartBeatArgs, lengthBeats \in LengthBeatArgs :
           addNote(noteNumber, startBeat, lengthBeats, 80)
    \/ \E index \in (0 - 1)..Len(midiClip.midiData) : removeNote(index)
    \/ clearNotes

SpecMidiNotes == Init /\ [][NextMidiNotes]_vars

----------------------------------------------------------------------------
(* The tempo estimator.  Onset positions are sample counts.  The tempo is a  *)
(* float in BPM and is modelled in thousandths of a BPM, the confidence in  *)
(* thousandths, the adaptation rate in hundredths; a quotient is modelled   *)
(* by the floor of the exact quotient.  Onsets arrive in stream order, so   *)
(* the unsigned difference of two neighbours never wraps.                   *)

MaxOnset == 6           \* onset positions: 0..MaxOnset

GapArgs == {1, 2}

EstimatorConfig(historySize) ==
    [sampleRate |-> 2, minTempo |-> 60000, maxTempo |-> 200000,
     adaptationRate |-> 10, historySize |-> historySize]

ConfigArgs == {EstimatorConfig(1), EstimatorConfig(4)}

\* std::sort
RECURSIVE sorted(_)
sorted(values) ==
    IF values = <<>> THEN <<>>
    ELSE LET rest == sorted(Tail(values))
             head == Head(values)
         IN  SelectSeq(rest, LAMBDA v : v <= head) \o <<head>>
                 \o SelectSeq(rest, LAMBDA v : v > head)

\* the inter-onset intervals, in samples
intervalsOf(history) == [i \in 1..(Len(history) - 1) |-> history[i + 1] - history[i]]

\* autocorrelate: the median interval, here twice the median in samples
autocorrelate(intervals) ==
    IF intervals = <<>> THEN 0
    ELSE LET sortedIntervals == sorted(intervals)
             medianIdx == Len(sortedIntervals) \div 2
         IN  IF Len(sortedIntervals) % 2 = 0 /\ Len(sortedIntervals) > 1
             THEN sortedIntervals[medianIdx] + sortedIntervals[medianIdx + 1]
             ELSE 2 * sortedIntervals[medianIdx + 1]

RECURSIVE sumOfSquares(_, _)
sumOfSquares(intervals, twiceMean) ==
    IF intervals = <<>> THEN 0
    ELSE (2 * Head(intervals) - twiceMean) * (2 * Head(intervals) - twiceMean)
             + sumOfSquares(Tail(intervals), twiceMean)

\* estimateTempo with the intervals left in samples
estimateTempo_InSamples(e) ==
    IF Len(e.onsetHistory) < 4 THEN e
    ELSE LET intervals    == intervalsOf(e.onsetHistory)
             bestInterval == autocorrelate(intervals)
         IN  IF bestInterval > 0
             THEN LET estimatedTempo == max(e.config.minTempo,
                                            IF e.config.maxTempo < 120000 \div bestInterval
                                            THEN e.config.maxTempo
                                            ELSE 120000 \div bestInterval)
                      scale == 4 * Len(intervals)
                      spread == 10 * sumOfSquares(intervals, bestInterval)
                      conf == (1000 * scale) \div (scale + spread)
                  IN  [e EXCEPT
                          !.currentTempo = (e.currentTempo * (100 - e.config.adaptationRate)
                                             + estimatedTempo * e.config.adaptationRate) \div 100,
                          !.confidence = IF conf < 1000 THEN conf ELSE 1000]
             ELSE e

estimateTempo(e) ==
    IF Len(e.onsetHistory) < 4 THEN e
    ELSE LET intervals    == intervalsOf(e.onsetHistory)
             bestInterval == autocorrelate(intervals)
             rate         == e.config.sampleRate
         IN  IF bestInterval > 0
             THEN LET estimatedTempo == max(e.config.minTempo,
                                            IF e.config.maxTempo < (120000 * rate) \div bestInterval
                                            THEN e.config.maxTempo
                                            ELSE (120000 * rate) \div bestInterval)
                      scale == 4 * Len(intervals) * rate * rate
                      spread == 10 * sumOfSquares(intervals, bestInterval)
                      conf == (1000 * scale) \div (scale + spread)
                  IN  [e EXCEPT
                          !.currentTempo = (e.currentTempo * (100 - e.config.adaptationRate)
                                             + estimatedTempo * e.config.adaptationRate) \div 100,
                          !.confidence = IF conf < 1000 THEN conf ELSE 1000]
             ELSE e

addOnset(samplePos) ==
    /\ samplePos <= MaxOnset
    /\ LET pushed == Append(estimator.onsetHistory, samplePos)
           kept   == IF Len(pushed) > estimator.config.historySize THEN Tail(pushed) ELSE pushed
       IN  estimator' = estimateTempo([estimator EXCEPT !.onsetHistory = kept,
                                                        !.lastOnsetPosition = samplePos])
    /\ lastUnit' = [op |-> "addOnset", samplePosition |-> samplePos]
    /\ UNCHANGED notTheEstimator

updateConfig(config) ==
    /\ estimator' = [estimator EXCEPT !.config = config]
    /\ lastUnit' = [op |-> "updateConfig", historySize |-> config.historySize]
    /\ UNCHANGED notTheEstimator

Estimator_reset ==
    /\ estimator' = [estimator EXCEPT !.onsetHistory = <<>>,
                                      !.currentTempo = 120000,
                                      !.confidence = 0,
                                      !.lastOnsetPosition = 0]
    /\ lastUnit' = [op |-> "reset"]
    /\ UNCHANGED notTheEstimator

NextEstimator ==
    \/ \E gap \in GapArgs : addOnset(estimator.lastOnsetPosition + gap)
    \/ \E config \in ConfigArgs : updateConfig(config)
    \/ Estimator_reset

SpecEstimator == Init /\ [][NextEstimator]_vars

(* The estimator fed with onsets at three spacings, at 1, 2 and 4 samples  *)
(* per second and a history of four onsets.                                *)
TempoGapArgs == {1, 2, 3}

TempoConfig(rate) == [EstimatorConfig(4) EXCEPT !.sampleRate = rate]

TempoConfigArgs == {TempoConfig(1), TempoConfig(2), TempoConfig(4)}

NextTempo ==
    \/ \E gap \in TempoGapArgs : addOnset(estimator.lastOnsetPosition + gap)
    \/ \E config \in TempoConfigArgs : updateConfig(config)
    \/ Estimator_reset

SpecTempo == Init /\ [][NextTempo]_vars

----------------------------------------------------------------------------
(* One plug-in slot.  A plug-in description is the plug-in's name; the      *)
(* format manager is the set of names it can instantiate.  What a hosted    *)
(* plug-in writes into the buffers is outside the model: a block records    *)
(* the plug-ins that processed it.                                          *)

NoDescription == ""

DescriptionArgs   == {"Reverb", "Delay"}
FormatManagerArgs == {{}, {"Reverb"}, {"Reverb", "Delay"}}
SlotRateArgs      == {44100, 48000}
SlotSizeArgs      == {256, 512}
SlotBlockArgs     == {[audio |-> <<100, 50>>, midi |-> <<>>, processedBy |-> <<>>],
                      [audio |-> <<0>>, midi |-> <<<<144, 60, 100>>>>, processedBy |-> <<>>]}

\* formatManager.createPluginInstance: the instance, or nullptr
createPluginInstance(formatManager, desc) ==
    IF desc \in formatManager THEN desc ELSE NoDescription

loadPlugin_KeepsPrevious(desc, formatManager, rate, blockSize) ==
    /\ LET created == createPluginInstance(formatManager, desc)
       IN  /\ slot' = IF created # NoDescription
                      THEN [slot EXCEPT !.hasPlugin = TRUE, !.plugin = created,
                                        !.description = desc,
                                        !.currentSampleRate = rate,
                                        !.currentBlockSize = blockSize]
                      ELSE slot
           /\ lastUnit' = [op |-> "loadPlugin", desc |-> desc,
                           formatManager |-> formatManager,
                           ret |-> created # NoDescription]
    /\ UNCHANGED notTheSlot

loadPlugin(desc, formatManager, rate, blockSize) ==
    /\ LET created == createPluginInstance(formatManager, desc)
       IN  /\ slot' = IF created # NoDescription
                      THEN [slot EXCEPT !.hasPlugin = TRUE, !.plugin = created,
                                        !.description = desc,
                                        !.currentSampleRate = rate,
                                        !.currentBlockSize = blockSize]
                      ELSE [slot EXCEPT !.hasPlugin = FALSE, !.plugin = NoDescription]
           /\ lastUnit' = [op |-> "loadPlugin", desc |-> desc,
                           formatManager |-> formatManager,
                           ret |-> created # NoDescription]
    /\ UNCHANGED notTheSlot

clearPlugin ==
    /\ slot' = [slot EXCEPT !.hasPlugin = FALSE, !.plugin = NoDescription,
                            !.description = NoDescription]
    /\ lastUnit' = [op |-> "clearPlugin"]
    /\ UNCHANGED notTheSlot

Slot_setEnabled(e) ==
    /\ slot' = [slot EXCEPT !.enabled = e]
    /\ lastUnit' = [op |-> "setEnabled"]
    /\ UNCHANGED notTheSlot

Slot_processBlock(block) ==
    /\ lastUnit' = [op |-> "processBlock", block |-> block,
                    out |-> IF slot.hasPlugin /\ slot.enabled
                            THEN [block EXCEPT !.processedBy = Append(@, slot.plugin)]
                            ELSE block]
    /\ UNCHANGED <<slot, notTheSlot>>

NextSlot ==
    \/ \E desc \in DescriptionArgs, formatManager \in FormatManagerArgs,
          rate \in SlotRateArgs, blockSize \in SlotSizeArgs :
           loadPlugin(desc, formatManager, rate, blockSize)
    \/ clearPlugin
    \/ \E e \in BOOLEAN : Slot_setEnabled(e)
    \/ \E block \in SlotBlockArgs : Slot_processBlock(block)

SpecSlot == Init /\ [][NextSlot]_vars

----------------------------------------------------------------------------
(* One audio clip and the files on disk.  The reader source is the file it  *)
(* reads and its read cursor; a render is described by the file and the     *)
(* source position it read from.                                            *)

NoFile == <<>>

\* the files that exist and can be read, with what createReaderFor returns for them
Disk(file) ==
    CASE file = <<"take.wav">> -> [exists |-> TRUE, lengthInSamples |-> 4,
                                   fileNameWithoutExtension |-> <<"take">>]
      [] file = <<"solo.wav">> -> [exists |-> TRUE, lengthInSamples |-> 6,
                                   fileNameWithoutExtension |-> <<"solo">>]
      [] OTHER -> NoReader

FileArgs == {<<"take.wav">>, <<"solo.wav">>, <<"gone.wav">>}

AudioClip_load(file) ==
    /\ audioClip' = IF Disk(file).exists
                    THEN [AudioClip_setAudioFile(audioClip, file, Disk(file))
                             EXCEPT !.readerFile = file, !.nextReadPosition = 0]
                    ELSE AudioClip_setAudioFile(audioClip, file, Disk(file))
    /\ lastUnit' = [op |-> "setAudioFile", file |-> file, prevLength |-> audioClip.length]
    /\ UNCHANGED notTheAudioClip

AudioClip_setStartPosition(pos) ==
    /\ audioClip' = Clip_setStartPosition(audioClip, pos)
    /\ lastUnit' = [op |-> "setStartPosition"]
    /\ UNCHANGED notTheAudioClip

AudioClip_setOffset(off) ==
    /\ audioClip' = Clip_setOffset(audioClip, off)
    /\ lastUnit' = [op |-> "setOffset"]
    /\ UNCHANGED notTheAudioClip

\* readerSource->getNextAudioBlock: numSamples samples from the cursor on
getNextAudioBlock(clip, numSamples) ==
    [clip EXCEPT !.nextReadPosition = @ + numSamples]

getAudio_FromCursor(playPosition, numSamples) ==
    /\ IF audioClip.hasReader /\ containsPosition(audioClip, playPosition)
       THEN /\ audioClip' = getNextAudioBlock(audioClip, numSamples)
            /\ lastUnit' = [op |-> "getAudio", playPosition |-> playPosition,
                            wrote |-> TRUE, readFile |-> audioClip.readerFile,
                            readStart |-> audioClip.nextReadPosition,
                            cursorBefore |-> audioClip.nextReadPosition]
       ELSE /\ audioClip' = audioClip
            /\ lastUnit' = [op |-> "getAudio", playPosition |-> playPosition,
                            wrote |-> FALSE, readFile |-> NoFile, readStart |-> 0,
                            cursorBefore |-> audioClip.nextReadPosition]
    /\ UNCHANGED notTheAudioClip

getAudio(playPosition, numSamples) ==
    /\ IF audioClip.hasReader /\ containsPosition(audioClip, playPosition)
       THEN LET positionInClip == playPosition - audioClip.startPosition + audioClip.offset
                sought == [audioClip EXCEPT !.nextReadPosition = positionInClip]
            IN  /\ audioClip' = getNextAudioBlock(sought, numSamples)
                /\ lastUnit' = [op |-> "getAudio", playPosition |-> playPosition,
                                wrote |-> TRUE, readFile |-> sought.readerFile,
                                readStart |-> sought.nextReadPosition,
                                cursorBefore |-> audioClip.nextReadPosition]
       ELSE /\ audioClip' = audioClip
            /\ lastUnit' = [op |-> "getAudio", playPosition |-> playPosition,
                            wrote |-> FALSE, readFile |-> NoFile, readStart |-> 0,
                            cursorBefore |-> audioClip.nextReadPosition]
    /\ UNCHANGED notTheAudioClip

NextAudioClip ==
    \/ \E file \in FileArgs : AudioClip_load(file)
    \/ \E pos \in ClipStartArgs : AudioClip_setStartPosition(pos)
    \/ \E off \in ClipOffsetArgs : AudioClip_setOffset(off)
    \/ \E playPosition \in RenderPosArgs, numSamples \in BlockArgs :
           getAudio(playPosition, numSamples)

SpecAudioClip == Init /\ [][NextAudioClip]_vars

----------------------------------------------------------------------------
(* Properties of the transport driven by one caller at a time *)

\* C1: from any mode and any sample position, a completed stop() leaves the
\* transport with mode Stopped and sample position exactly 0.
C1_StopResets ==
    last.op = "stop" => state = "Stopped" /\ samplePosition = 0

C1_Witness ==
    /\ last.op = "stop"
    /\ last.prevState = "Recording"
    /\ last.prevPos > 0
    /\ state = "Stopped"
    /\ samplePosition = 0

\* C2: play -> Playing, pause -> Paused, stop -> Stopped, startRecording ->
\* Recording from every mode; stopRecording -> Playing exactly when the mode is
\* Recording and otherwise changes neither mode nor position and raises no
\* notification; isPlaying() is true exactly for Playing and Recording.
C2_TransitionRelation ==
    [][ /\ last'.op = "play" => state' = "Playing"
        /\ last'.op = "pause" => state' = "Paused"
        /\ last'.op = "stop" => state' = "Stopped"
        /\ last'.op = "startRecording" => state' = "Recording"
        /\ last'.op = "stopRecording" =>
              IF state = "Recording"
              THEN state' = "Playing"
              ELSE state' = state /\ samplePosition' = samplePosition /\ notes' = <<>>
        /\ last'.op = "isPlaying" =>
              (last'.ret <=> state' \in {"Playing", "Recording"}) ]_vars

C2_Witness ==
    /\ last.op = "stopRecording"
    /\ last.prevState = "Paused"
    /\ state = "Paused"
    /\ notes = <<>>

\* C3: every transport operation that changes observable state raises exactly
\* one notification of the corresponding kind in that call.
CorrespondingKinds(op) ==
    CASE op \in {"play", "pause", "stop", "startRecording", "stopRecording"} -> {"state"}
      [] op = "setSamplePosition" -> {"position"}
      [] op = "setTempo" -> {"tempo"}
      [] op \in {"setTimeSignature", "setSampleRate"} -> {"state", "tempo", "position", "loop"}
      [] op \in {"setLooping", "setLoopRange"} -> {"loop"}
      [] OTHER -> {}

C3_ExactlyOneNotification ==
    [][ (CorrespondingKinds(last'.op) # {} /\ transportVars' # transportVars) =>
            Cardinality({i \in 1..Len(notes') :
                            notes'[i] \in CorrespondingKinds(last'.op)}) = 1 ]_vars

\* C4: performLoopIfNeeded() sets the position to exactly loopStart and returns
\* true when looping is enabled and position >= loopEnd, otherwise returns false
\* and changes nothing; shouldLoop() changes nothing; a second
\* performLoopIfNeeded() directly after the first leaves the position unchanged.
C4_LoopJump ==
    [][ /\ last'.op = "performLoopIfNeeded" =>
              IF loopEnabled /\ samplePosition >= loopEndSamples
              THEN /\ last'.ret
                   /\ samplePosition' = loopStartSamples
              ELSE /\ ~last'.ret
                   /\ transportVars' = transportVars
        /\ last'.op = "shouldLoop" => transportVars' = transportVars
        /\ (last.op = "performLoopIfNeeded" /\ last'.op = "performLoopIfNeeded") =>
              samplePosition' = samplePosition ]_vars

C4_Witness ==
    /\ last.op = "performLoopIfNeeded"
    /\ last.ret
    /\ loopEnabled
    /\ loopStartSamples < loopEndSamples
    /\ last.prevPos = loopEndSamples
    /\ samplePosition = loopStartSamples

\* C5: after any sequence of setLoopRange / setLoopRangeInBeats calls the
\* stored loop bounds satisfy loopEnd >= loopStart.
C5_LoopEndNotBeforeStart ==
    loopEndSamples >= loopStartSamples

\* C6: the sample position is >= 0 in every reachable state.
C6_PositionNonNegative ==
    samplePosition >= 0

----------------------------------------------------------------------------
(* Properties of the time signature under concurrent callers *)

HasReadPair(t) == pc[t] \in {"rd_unlock", "rd_return", "spb_store", "spb_notify"}

\* C8: under any interleaving of setTimeSignature with the methods that read
\* the time signature, every read observes a numerator/denominator pair stored
\* by one single setTimeSignature call (or the initial 4/4), and a thread never
\* holds the time-signature lock while it invokes a listener.
C8_TimeSignatureReadsAtomic ==
    \A t \in Threads :
        /\ HasReadPair(t) => <<local[t].numerator, local[t].denominator>> \in written
        /\ pc[t] = "spb_notify" => lockOwner # t

C8_Witness ==
    \E t \in Threads, u \in Threads :
        /\ t # u
        /\ pc[t] = "spb_notify"
        /\ <<local[t].numerator, local[t].denominator>> = <<3, 8>>
        /\ pc[u] = "sts_denominator"
        /\ lockOwner = u
        /\ timeSignature = [numerator |-> 1, denominator |-> 8]

\* C29: advancePosition(N) adds exactly N to the sample position when the
\* mode is Playing or Recording and leaves the position unchanged when the
\* mode is Stopped or Paused; pause() leaves the position unchanged.
C29_AdvanceOnlyWhilePlaying ==
    /\ last.op = "advancePosition" =>
          samplePosition = IF last.prevState \in {"Playing", "Recording"}
                           THEN last.prevPos + last.numSamples
                           ELSE last.prevPos
    /\ last.op = "pause" => samplePosition = last.prevPos

C29_Witness ==
    /\ last.op = "advancePosition"
    /\ last.prevState = "Recording"
    /\ last.numSamples = 2
    /\ samplePosition = last.prevPos + 2

\* C30: play() called while the mode is already Playing changes nothing
\* (mode, position, tempo, time signature, loop settings) and raises no
\* notification; called in any other mode it raises exactly one
\* state-changed notification.
C30_PlayWhilePlayingIsNoOp ==
    [][last'.op = "play" =>
          IF state = "Playing"
          THEN UNCHANGED transportVars /\ notes' = <<>>
          ELSE notes' = <<"state">>]_vars

C30_Witness ==
    /\ last.op = "play"
    /\ last.prevState = "Playing"
    /\ notes = <<>>
    /\ samplePosition = 2
    /\ loopEnabled

----------------------------------------------------------------------------
(* Properties of the track collection *)

\* C9: for every valid track index i, isTrackAudible(i) is true exactly when
\* track i is not muted and (no track is soloed or track i is soloed): with a
\* soloed track every non-soloed track is inaudible whatever its mute flag, and
\* with none soloed audibility equals !muted.
C9_SoloRule ==
    LET someSolo == \E j \in 1..Len(tracks) : tracks[j].solo
    IN  \A i \in 1..Len(tracks) :
            /\ isTrackAudible(i - 1) <=>
                  (~tracks[i].muted /\ (~someSolo \/ tracks[i].solo))
            /\ (someSolo /\ ~tracks[i].solo) => ~isTrackAudible(i - 1)
            /\ ~someSolo => (isTrackAudible(i - 1) <=> ~tracks[i].muted)

C9_Witness ==
    \E i \in 1..Len(tracks), j \in 1..Len(tracks) :
        /\ tracks[j].solo /\ ~tracks[j].muted /\ isTrackAudible(j - 1)
        /\ ~tracks[i].solo /\ ~tracks[i].muted /\ ~isTrackAudible(i - 1)

\* C10: whenever a track is inaudible by the collection's rule, processBlock
\* clears the output buffer and returns without rendering clips or running the
\* plugin chain; whenever it is audible, processBlock renders.
C10_ProcessFollowsAudibility ==
    proc.index >= 0 =>
        IF proc.audible
        THEN ~proc.bufferCleared /\ proc.ranPluginChain
        ELSE proc.bufferCleared /\ ~proc.renderedClips /\ ~proc.ranPluginChain

----------------------------------------------------------------------------
(* Properties of the collection's structure *)

\* C11: after any sequence of add*, removeTrack, moveTrack, duplicateTrack,
\* clear and loadFromProject, the cached index of the track at position k of
\* the collection is k.
C11_CachedIndexIsPosition ==
    \A k \in 1..Len(tracks) : tracks[k].index = k - 1

C11_Witness ==
    /\ lastList.op = "moveTrack"
    /\ lastList.index = 2 /\ lastList.to = 0
    /\ Len(tracks) = 3
    /\ listNotes # <<>>

\* C12: a track's identity is the one it was constructed with: no operation,
\* Track::fromVar and the re-hydration step of duplicateTrack included, gives
\* a track of the collection another identity afterwards.
C12_IdentityNeverReassigned ==
    \A k \in 1..Len(tracks) : tracks[k].id = tracks[k].constructedId

sameTrackObject(a, b) == [a EXCEPT !.index = 0] = [b EXCEPT !.index = 0]

\* C13: duplicateTrack(i) with a valid i grows the collection by exactly one
\* track: the original stays at position i, a newly constructed track of the
\* same type named <original name> + " Copy" sits at i + 1, and all other
\* tracks keep their relative order.
C13_DuplicateInsertsCopy ==
    [][(lastList'.op = "duplicateTrack" /\ validIndex(lastList'.index)) =>
          LET i == lastList'.index
          IN  /\ Len(tracks') = Len(tracks) + 1
              /\ \A k \in 1..(i + 1) : sameTrackObject(tracks'[k], tracks[k])
              /\ tracks'[i + 1] = tracks[i + 1]
              /\ \A k \in (i + 2)..Len(tracks) : sameTrackObject(tracks'[k + 1], tracks[k])
              /\ tracks'[i + 2].type = tracks[i + 1].type
              /\ tracks'[i + 2].name = tracks[i + 1].name \o <<"Copy">>
              /\ \A k \in 1..Len(tracks) :
                    tracks'[i + 2].constructedId # tracks[k].constructedId]_vars

C13_Witness ==
    /\ lastList.op = "duplicateTrack"
    /\ lastList.index = 0
    /\ Len(tracks) = 3
    /\ listNotes # <<>>
    /\ tracks[2].name = tracks[1].name \o <<"Copy">>
    /\ tracks[3].type # tracks[1].type

BaseNameOf(op) ==
    CASE op = "addAudioTrack" -> "Audio"
      [] op = "addMidiTrack"  -> "MIDI"
      [] op = "addGroupTrack" -> "Group"

\* C14: a track added with an empty name is appended at the end and is named
\* "<base> k", where k counts the tracks added with an empty name for that
\* base since the last clear, independently of the other bases.
C14_DefaultNamePerBase ==
    (lastList.op \in {"addAudioTrack", "addMidiTrack", "addGroupTrack"}
        /\ lastList.name = <<>>) =>
        LET base == BaseNameOf(lastList.op)
        IN  tracks[Len(tracks)].name = <<base, defaultAdded[base]>>

structuralNotes == {"trackAdded", "trackRemoved", "trackMoved"}

\* C15: every operation that changes the track sequence raises a trackAdded,
\* trackRemoved or trackMoved notification matching the change, and every
\* operation that changes the selected index raises selectionChanged.
C15_ChangesAreNotified ==
    [][/\ Len(tracks') > Len(tracks) =>
              \E n \in 1..Len(listNotes') : listNotes'[n].kind = "trackAdded"
       /\ Len(tracks') < Len(tracks) =>
              \E n \in 1..Len(listNotes') : listNotes'[n].kind = "trackRemoved"
       /\ tracks' # tracks =>
              \E n \in 1..Len(listNotes') : listNotes'[n].kind \in structuralNotes
       /\ selectedTrackIndex' # selectedTrackIndex =>
              \E n \in 1..Len(listNotes') : listNotes'[n].kind = "selectionChanged"]_vars

----------------------------------------------------------------------------
(* Properties of one track: export, import, ranges and clip lookup *)

\* C16: exporting a track with toVar and importing the bag with fromVar into
\* a newly constructed track of the same type gives the same name, colour,
\* solo, mute and armed flags, volume and pan, and the same number of clips in
\* the same order with the same start, length and offset.
C16_ExportImportKeepsFields ==
    lastTrack.op = "exportThenImport" =>
        LET r == lastTrack.ret
        IN  /\ r.name = trk.name
            /\ r.colour = trk.colour
            /\ r.solo = trk.solo /\ r.muted = trk.muted /\ r.armed = trk.armed
            /\ r.volume = trk.volume /\ r.pan = trk.pan
            /\ Len(r.clips) = Len(trk.clips)
            /\ \A k \in 1..Len(trk.clips) :
                  /\ r.clips[k].startPosition = trk.clips[k].startPosition
                  /\ r.clips[k].length = trk.clips[k].length
                  /\ r.clips[k].offset = trk.clips[k].offset

C16_Witness ==
    /\ lastTrack.op = "exportThenImport"
    /\ trk.name = <<"Bass">>
    /\ trk.colour = <<0, 18, 52, 86>>
    /\ trk.solo /\ ~trk.muted /\ trk.armed
    /\ trk.volume = 2 /\ trk.pan = 0 - 1
    /\ trk.clips = <<PatternClip, TakeClip>>

\* C17: importing an exported track re-creates every clip as a clip of the
\* same variant (plain, audio or MIDI) carrying the payload of the original:
\* the audio file of an audio clip, the events of a MIDI clip.
C17_ImportKeepsClipVariant ==
    lastTrack.op = "exportThenImport" =>
        LET r == lastTrack.ret
        IN  /\ Len(r.clips) = Len(trk.clips)
            /\ \A k \in 1..Len(trk.clips) :
                  /\ r.clips[k].kind = trk.clips[k].kind
                  /\ r.clips[k].audioFile = trk.clips[k].audioFile
                  /\ r.clips[k].midiData = trk.clips[k].midiData

\* C19: after any sequence of setVolume, setVolumeDb, setPan, clip setters and
\* fromVar with arbitrary values, the track's volume is in [0, 2], its pan is
\* in [-1, 1], and every clip has start, length and offset >= 0.
C19_FieldsInRange ==
    /\ trk.volume >= 0 /\ trk.volume <= 2
    /\ trk.pan >= 0 - 1 /\ trk.pan <= 1
    /\ \A k \in 1..Len(trk.clips) :
          /\ trk.clips[k].startPosition >= 0
          /\ trk.clips[k].length >= 0
          /\ trk.clips[k].offset >= 0

\* C20: getClipAtPosition(p) returns the earliest-inserted clip whose
\* half-open extent [start, start + length) contains p, and no clip when none
\* contains it; p = start + length is outside the clip, and a clip of length
\* zero is never returned.
C20_ClipAtPosition ==
    lastTrack.op = "getClipAtPosition" =>
        LET p == lastTrack.index
            r == lastTrack.ret
            inside(k) == /\ trk.clips[k].startPosition <= p
                         /\ p < trk.clips[k].startPosition + trk.clips[k].length
        IN  IF \E k \in 1..Len(trk.clips) : inside(k)
            THEN /\ r >= 0 /\ r < Len(trk.clips)
                 /\ inside(r + 1)
                 /\ \A j \in 1..r : ~inside(j)
                 /\ trk.clips[r + 1].length > 0
                 /\ p # trk.clips[r + 1].startPosition + trk.clips[r + 1].length
            ELSE r = 0 - 1

C20_Witness ==
    /\ lastTrack.op = "getClipAtPosition"
    /\ trk.clips = <<TakeClip, PatternClip>>
    /\ lastTrack.index = 2
    /\ lastTrack.ret = 1

----------------------------------------------------------------------------
(* Properties of positional operations *)

listUntouched ==
    /\ UNCHANGED <<tracks, selectedTrackIndex, nextTrackNumber, nextUuid, masterTrack>>
    /\ listNotes' = <<>>

trackUntouched == UNCHANGED trk /\ trkNotes' = 0

\* C18: removeTrack, moveTrack, duplicateTrack, setSelectedTrackIndex,
\* removeClip, removePluginSlot and movePluginSlot called with a position out
\* of range (moveTrack and movePluginSlot also with two equal positions) leave
\* the state unchanged and raise no notification; getTrack, getClip and
\* getPluginSlot called with a position out of range return no element.
C18_OutOfRangeIsNoOp ==
    [][LET l == lastList'
           t == lastTrack'
       IN  /\ (l.op \in {"removeTrack", "duplicateTrack"}
                  /\ (l.index < 0 \/ l.index >= Len(tracks))) => listUntouched
           /\ (l.op = "moveTrack"
                  /\ (\/ l.index < 0 \/ l.index >= Len(tracks)
                      \/ l.to < 0 \/ l.to >= Len(tracks)
                      \/ l.index = l.to)) => listUntouched
           /\ (l.op = "setSelectedTrackIndex"
                  /\ (l.index < 0 - 1 \/ l.index >= Len(tracks))) => listUntouched
           /\ (l.op = "getTrack"
                  /\ (l.index < 0 \/ l.index >= Len(tracks))) =>
                 (l.ret = 0 - 1 /\ listUntouched)
           /\ (t.op = "removeClip"
                  /\ (t.index < 0 \/ t.index >= Len(trk.clips))) => trackUntouched
           /\ (t.op = "removePluginSlot"
                  /\ (t.index < 0 \/ t.index >= Len(trk.pluginSlots))) => trackUntouched
           /\ (t.op = "movePluginSlot"
                  /\ (\/ t.index < 0 \/ t.index >= Len(trk.pluginSlots)
                      \/ t.to < 0 \/ t.to >= Len(trk.pluginSlots)
                      \/ t.index = t.to)) => trackUntouched
           /\ (t.op = "getClip"
                  /\ (t.index < 0 \/ t.index >= Len(trk.clips))) =>
                 (t.ret = 0 - 1 /\ trackUntouched)
           /\ (t.op = "getPluginSlot"
                  /\ (t.index < 0 \/ t.index >= Len(trk.pluginSlots))) =>
                 (t.ret = 0 - 1 /\ trackUntouched)]_vars

C18_Witness ==
    /\ lastTrack.op = "removeClip"
    /\ lastTrack.index = Len(trk.clips)
    /\ Len(trk.clips) = 2
    /\ Len(trk.pluginSlots) = 2
    /\ Len(tracks) = 2
    /\ selectedTrackIndex = 1
    /\ trkNotes = 0

----------------------------------------------------------------------------
(* Properties of peak metering *)

\* C21: after each processed block, the stored peak of every metered channel
\* (the first two of the buffer) equals the larger of the previous peak times
\* 0.99 and the magnitude of the block, so it is never below that magnitude.
C21_PeakIsMaxOfDecayAndBlock ==
    [][lastUnit'.op = "updatePeakLevels" =>
          \A c \in 1..jmin(Len(lastUnit'.buffer), 2) :
              /\ peakLevels'[c] = max(decayed(peakLevels[c]), lastUnit'.buffer[c])
              /\ peakLevels'[c] >= lastUnit'.buffer[c]]_vars

----------------------------------------------------------------------------
(* Properties of the MIDI channel filter *)

\* C22: when a MIDI track has a channel c in 1..16 assigned, the buffer left by
\* processBlock holds, in their original order, exactly the incoming events
\* on channel c and the channel-agnostic events: no event addressed to another
\* channel remains.
C22_FilterDropsOtherChannels ==
    (lastUnit.op = "processBlock" /\ ~lastUnit.gated /\ midiTrack.midiChannel \in 1..16) =>
        lastUnit.out = SelectSeq(lastUnit.midiMessages,
                                 LAMBDA e : getChannel(e.message) \in {0, midiTrack.midiChannel})

----------------------------------------------------------------------------
(* Properties of MIDI clip rendering *)

\* C23: a render request at a play position inside the clip emits exactly the
\* events whose timestamp, converted to samples, lies in the window that
\* starts at playPosition - start + offset and spans numSamples samples, in
\* order, each at a sample offset in [0, numSamples).
C23_RenderEmitsWindow ==
    (lastUnit.op = "getMidi" /\ containsPosition(midiClip, lastUnit.playPosition)) =>
        LET first  == startTimeInClip(lastUnit.playPosition) * 1000
            inside == SelectSeq(midiClip.midiData,
                          LAMBDA e : /\ e.time * lastUnit.sampleRate >= first
                                     /\ e.time * lastUnit.sampleRate
                                           < first + lastUnit.numSamples * 1000)
        IN  /\ Len(lastUnit.buffer) = Len(inside)
            /\ \A k \in 1..Len(inside) :
                   /\ lastUnit.buffer[k].message = inside[k].data
                   /\ lastUnit.buffer[k].samplePosition
                         = (inside[k].time * lastUnit.sampleRate - first) \div 1000
                   /\ lastUnit.buffer[k].samplePosition >= 0
                   /\ lastUnit.buffer[k].samplePosition < lastUnit.numSamples

----------------------------------------------------------------------------
(* Properties of MIDI clip edits *)

\* C24: after any sequence of addNote, removeNote with any index and
\* clearNotes, every note-on of the sequence is paired with one note-off of
\* the sequence for the same note and channel, and every note-off is the
\* partner of exactly one note-on: no half of a pair is left alone.
C24_NotesStayPaired ==
    LET list == midiClip.midiData
        ons  == {k \in 1..Len(list) : isNoteOn(list[k].data)}
        offs == {k \in 1..Len(list) : isNoteOff(list[k].data)}
    IN  /\ \A k \in ons :
               /\ list[k].noteOffObject \in offs
               /\ getNoteNumber(list[list[k].noteOffObject].data) = getNoteNumber(list[k].data)
               /\ getChannel(list[list[k].noteOffObject].data) = getChannel(list[k].data)
        /\ \A j \in offs :
               Cardinality({k \in ons : list[k].noteOffObject = j}) = 1

----------------------------------------------------------------------------
(* Properties of the tempo estimator *)

\* C25: after any sequence of addOnset, updateConfig and reset, the number of
\* buffered onsets is at most the history size configured at that moment, a
\* smaller size given to updateConfig included.
C25_HistoryWithinConfiguredSize ==
    Len(estimator.onsetHistory) <= estimator.config.historySize

----------------------------------------------------------------------------
(* Properties of a plug-in slot *)

\* C26: a loadPlugin whose plug-in instance cannot be created returns false
\* and leaves the slot without a plug-in, and processBlock on a slot without
\* a plug-in leaves the block as it was; a loadPlugin whose instance is
\* created returns true and leaves the slot holding that plug-in.
C26_LoadFailureLeavesSlotEmpty ==
    /\ (lastUnit.op = "loadPlugin" /\ lastUnit.desc \notin lastUnit.formatManager) =>
           /\ lastUnit.ret = FALSE
           /\ ~slot.hasPlugin
           /\ slot.plugin = NoDescription
    /\ (lastUnit.op = "loadPlugin" /\ lastUnit.desc \in lastUnit.formatManager) =>
           /\ lastUnit.ret = TRUE
           /\ slot.hasPlugin
           /\ slot.plugin = lastUnit.desc
    /\ (lastUnit.op = "processBlock" /\ ~slot.hasPlugin) => lastUnit.out = lastUnit.block

\* a failed load on a slot that held a plug-in (its description is still the old one)
C26_Witness ==
    /\ lastUnit.op = "loadPlugin"
    /\ lastUnit.desc = "Delay"
    /\ lastUnit.formatManager = {"Reverb"}
    /\ lastUnit.ret = FALSE
    /\ slot.description = "Reverb"
    /\ ~slot.hasPlugin

----------------------------------------------------------------------------
(* Properties of audio clip rendering *)

\* C27: while the file assigned to an audio clip is missing or unreadable, also
\* when a loaded clip has been re-pointed at such a file, getAudio writes
\* nothing, and assigning such a file leaves the clip's length as it was.
C27_MissingFileRendersNothing ==
    /\ (lastUnit.op = "getAudio" /\ ~Disk(audioClip.audioFile).exists) => ~lastUnit.wrote
    /\ (lastUnit.op = "setAudioFile" /\ ~Disk(lastUnit.file).exists) =>
           audioClip.length = lastUnit.prevLength

\* C28: every render of an audio clip at a position inside the clip reads the
\* source from playPosition - start + offset on, whatever the read cursor was
\* left at by earlier renders.
C28_RenderSeeksEveryCall ==
    (lastUnit.op = "getAudio" /\ lastUnit.wrote) =>
        lastUnit.readStart
            = lastUnit.playPosition - audioClip.startPosition + audioClip.offset

\* a render behind the point an earlier render left the cursor at
C28_Witness ==
    /\ lastUnit.op = "getAudio"
    /\ lastUnit.wrote
    /\ lastUnit.cursorBefore > lastUnit.readStart + 1
    /\ audioClip.offset = 1
    /\ lastUnit.readStart = lastUnit.playPosition - audioClip.startPosition + 1

----------------------------------------------------------------------------
(* Properties of the tempo estimate                                        *)

\* the estimating call that just returned: an onset was added and at least four are buffered
Estimated == lastUnit.op = "addOnset" /\ Len(estimator.onsetHistory) >= 4

\* every buffered interval is exactly half a second
HalfSecondSpaced(e) ==
    \A i \in 1..(Len(e.onsetHistory) - 1) :
        2 * (e.onsetHistory[i + 1] - e.onsetHistory[i]) = e.config.sampleRate

\* distance of a tempo from 120 BPM, in milli-BPM
offTempo(t) == IF t >= 120000 THEN t - 120000 ELSE 120000 - t

\* four times the sum of the squared deviations of the buffered intervals from
\* their median, in samples squared
fourSquaredDeviations(e) ==
    sumOfSquares(intervalsOf(e.onsetHistory), autocorrelate(intervalsOf(e.onsetHistory)))

\* the mean squared deviation of the buffered intervals is at least one second squared
WidelySpread(e) ==
    fourSquaredDeviations(e)
        >= 4 * (Len(e.onsetHistory) - 1) * e.config.sampleRate * e.config.sampleRate

\* no two neighbouring intervals are equal and the longest is at least twice the shortest
HighlyIrregular(e) ==
    LET iv == intervalsOf(e.onsetHistory)
    IN  /\ \A i \in 1..(Len(iv) - 1) : iv[i] # iv[i + 1]
        /\ \E i, j \in 1..Len(iv) : iv[i] >= 2 * iv[j]

\* onsets spaced at exactly 0.5 s move the estimate toward 120 BPM and give confidence 1.0
RegularOnsetsConverge ==
    (Estimated' /\ HalfSecondSpaced(estimator'))
        => /\ estimator'.confidence = 1000
           /\ offTempo(estimator'.currentTempo) <= offTempo(estimator.currentTempo)
           /\ offTempo(estimator.currentTempo) >= 10
                  => offTempo(estimator'.currentTempo) < offTempo(estimator.currentTempo)

----------------------------------------------------------------------------
(* Properties of the loop jump driven by one caller at a time              *)

\* C35 as amended: immediately after performLoopIfNeeded() returns true,
\* shouldLoop() is false exactly when loopStart < loopEnd; with
\* loopStart >= loopEnd (the default range 0..0 included) it is still true.
C35_OneJumpWhenStartBelowEnd ==
    (last.op = "performLoopIfNeeded" /\ last.ret)
        => (shouldLoopNow <=> ~(loopStartSamples < loopEndSamples))

\* the playhead crossed the end of a loop with start below end and jumped once
C35_Witness ==
    /\ last.op = "performLoopIfNeeded"
    /\ last.ret
    /\ last.prevPos >= loopEndSamples
    /\ loopStartSamples < loopEndSamples
    /\ samplePosition = loopStartSamples
    /\ ~shouldLoopNow

\* C35: immediately after performLoopIfNeeded() returns true, shouldLoop() is
\* false, for every loop range the setters can store.
C35_NoSecondJump ==
    (last.op = "performLoopIfNeeded" /\ last.ret) => ~shouldLoopNow

----------------------------------------------------------------------------
(* Properties of the mode and the position under two threads               *)

\* C32: an advancePosition(N) during which the mode was Playing or Recording
\* at every instant, a concurrent switch from Recording to Playing included,
\* finds isPlaying() true and advances the position by N.
C32_AdvancesWhileRolling ==
    (last.op = "advancePosition" /\ last.call.rolling) => last.ret

\* C33: once a stop() and the advancePosition(N) calls that overlapped it have
\* all returned, the mode is Stopped and the sample position is 0.
C33_StoppedAtZero ==
    (Quiet /\ "busy" \in DOMAIN last /\ last.busy = {"stop", "advancePosition"})
        => (state = "Stopped" /\ samplePosition = 0)

\* C34: a performLoopIfNeeded() that jumps while setLoopRange calls run on the
\* control thread compared against a loop end and jumped to a loop start of
\* the same call: the end it read is never below the start it read.
C34_LoopBoundsFromOneCall ==
    (last.op = "performLoopIfNeeded" /\ last.ret) => last.call.end >= last.call.start

----------------------------------------------------------------------------
(* Properties of identities and of the selection                           *)

\* C36: after any sequence of add, remove, move, duplicate, clear and
\* loadFromProject no two tracks of the collection share an identity.
C36_IdentitiesDistinct ==
    \A i, j \in 1..Len(tracks) : i # j => tracks[i].id # tracks[j].id

\* the selected index is -1 or a position of the collection
SelectionValid == selectedTrackIndex = 0 - 1
                      \/ (selectedTrackIndex >= 0 /\ selectedTrackIndex < numTracks)

\* C37: after removeTrack, moveTrack or duplicateTrack, when the track that
\* was selected before the call is still in the collection, the selected
\* index designates that same track.
C37_SelectionFollowsTrack ==
    [][ ( /\ lastList'.op \in {"removeTrack", "moveTrack", "duplicateTrack"}
          /\ selectedTrackIndex >= 0 /\ selectedTrackIndex < numTracks
          /\ \E j \in 1..Len(tracks') :
                 tracks'[j].constructedId = tracks[selectedTrackIndex + 1].constructedId )
        => /\ selectedTrackIndex' >= 0 /\ selectedTrackIndex' < Len(tracks')
           /\ tracks'[selectedTrackIndex' + 1].constructedId
                  = tracks[selectedTrackIndex + 1].constructedId ]_vars

\* C38: in every reachable state of the collection the selected index is -1
\* or a valid position, and selectPreviousTrack leaves a selection at
\* position 0 where it is.
C38_SelectionInRange ==
    [][ /\ SelectionValid'
        /\ (lastList'.op = "selectPreviousTrack" /\ selectedTrackIndex = 0)
               => selectedTrackIndex' = 0 ]_vars

\* selectPreviousTrack returned with the first track selected and changed nothing
C38_Witness ==
    /\ lastList.op = "selectPreviousTrack"
    /\ numTracks >= 2
    /\ selectedTrackIndex = 0
    /\ listNotes = <<>>

----------------------------------------------------------------------------
(* Properties of the per-block driver                                      *)

\* the driver runs, the mode is Playing or Recording and looping is enabled
\* with 0 <= loopStart < loopEnd
LoopingDriver ==
    /\ ~SettingUp
    /\ isPlayingNow
    /\ loopEnabled
    /\ 0 <= loopStartSamples /\ loopStartSamples < loopEndSamples

\* step (2) has just jumped: the tracks are about to be processed at loopStart
JumpedToLoopStart ==
    /\ pc[AudioThread] = "driver_process"
    /\ last.op = "performLoopIfNeeded" /\ last.ret
    /\ samplePosition = loopStartSamples

\* C39: while the driver repeats advancePosition(N), N > 0, and
\* performLoopIfNeeded() with the mode Playing or Recording, looping enabled,
\* 0 <= loopStart < loopEnd and no control call in between, the playhead
\* returns to loopStart again and again and the position the tracks are
\* processed at is always below loopEnd.
C39_DriverKeepsLooping ==
    /\ [](LoopingDriver => <>JumpedToLoopStart)
    /\ []((LoopingDriver /\ pc[AudioThread] = "driver_process")
              => samplePosition < loopEndSamples)

\* the driver has jumped back from beyond the loop end
C39_Witness ==
    /\ LoopingDriver
    /\ JumpedToLoopStart
    /\ last.prevPos > loopEndSamples

====
